---- MODULE Spec2Model ----
(***************************************************************************)
(* The dispatch core of markitdown: the converter registry                 *)
(* (MarkItDown.register_converter), the caller-facing entry points         *)
(* (convert, convert_local, convert_stream, convert_uri, convert_response) *)
(* and the dispatch loop MarkItDown._convert, which tries every            *)
(* (trial guess, converter) pair until one conversion produces a result.   *)
(*                                                                         *)
(* Converters are external collaborators.  A converter is identified by    *)
(* the order of its registration (converter 1 is registered first), and    *)
(* what its accepts and convert do for a given pair is chosen when the     *)
(* dispatch loop calls them.                                               *)
(***************************************************************************)
EXTENDS Integers, Sequences, FiniteSets, TLC

\* ------------------------------------------------------------------ bounds
\* The most registrations made on one MarkItDown instance.
MaxRegs == 3
\* The most guesses handed to _convert (the fallback guess comes on top).
MaxGuesses == 1
\* The length of the byte stream: read positions are 0..StreamLen.
StreamLen == 2
\* The most accepts calls that return True in one dispatch.
MaxAccepts == 2
\* The most archive entries a container converter hands to a nested dispatch
\* in one conversion call.
MaxEntries == 1
\* The longest text a converter hands back, in characters.
MaxText == 5
\* The most StreamInfo instances handed to one copy_and_update call.
MaxOverlays == 2
\* The most key=value parameters in the header of a data URI.
MaxParams == 2
\* The longest uploaded filename, in pieces (words and dots).
MaxName == 3

\* ------------------------------------------------------- program constants
PRIORITY_SPECIFIC_FILE_FORMAT == 0
PRIORITY_GENERIC_FILE_FORMAT == 10
\* stream_page = file_stream.read(4096)
CHARSET_PAGE == 4096

\* Python's None, as the value of a string field.
NULL == "None"

\* Python's None, where an object is expected.
None == [none |-> TRUE]

\* ------------------------------------------------------------- StreamInfo
\* The StreamInfo dataclass: six optional fields.
StreamInfo(mimetype, extension) ==
    [mimetype |-> mimetype, extension |-> extension, charset |-> NULL,
     filename |-> NULL, local_path |-> NULL, url |-> NULL]

\* StreamInfo(): every field None.
EmptyStreamInfo == StreamInfo(NULL, NULL)

\* The guesses a caller hands to dispatch: the empty StreamInfo (what guess
\* extraction yields for a stream without hints that defeats the classifier)
\* and one with an extension and a mimetype.
GuessValues ==
    {EmptyStreamInfo,
     StreamInfo("application/vnd.openxmlformats-officedocument.presentationml.presentation", ".pptx")}

RECURSIVE SeqsUpTo(_, _)
SeqsUpTo(S, n) ==
    IF n = 0 THEN {<<>>}
    ELSE LET shorter == SeqsUpTo(S, n - 1)
         IN  shorter \cup {Append(s, x) : s \in {t \in shorter : Len(t) = n - 1}, x \in S}

\* The guess lists handed to _convert: no guess twice in one list.
GuessLists ==
    {s \in SeqsUpTo(GuessValues, MaxGuesses) :
        \A i, j \in 1..Len(s) : s[i] = s[j] => i = j}

\* --------------------------------------------------------------- registry
Priorities == {PRIORITY_SPECIFIC_FILE_FORMAT, PRIORITY_GENERIC_FILE_FORMAT}

ConverterRegistration(converter, priority) ==
    [converter |-> converter, priority |-> priority]

\* A mutant of register_converter: the registration is appended.
register_converter_append(regs, converter, priority) ==
    Append(regs, ConverterRegistration(converter, priority))

\* self._converters.insert(0, ConverterRegistration(...))
register_converter(regs, converter, priority) ==
    <<ConverterRegistration(converter, priority)>> \o regs

\* One step of the stable sort: r goes behind every registration whose
\* priority is not larger, so equal priorities keep their list order.
InsertStable(s, r) ==
    LET k == Cardinality({i \in 1..Len(s) : s[i].priority <= r.priority})
    IN  SubSeq(s, 1, k) \o <<r>> \o SubSeq(s, k + 1, Len(s))

RECURSIVE SortInto(_, _)
SortInto(done, rest) ==
    IF rest = <<>> THEN done
    ELSE SortInto(InsertStable(done, Head(rest)), Tail(rest))

\* sorted(self._converters, key=lambda x: x.priority): a sorted copy.
sorted(regs) == SortInto(<<>>, regs)

\* ---------------------------------------------------------- dispatch loop
\* A mutant of TrialGuesses: no fallback guess.
TrialGuessesNoFallback(stream_info_guesses) == stream_info_guesses

\* for stream_info in stream_info_guesses + [StreamInfo()]
TrialGuesses(stream_info_guesses) == stream_info_guesses \o <<EmptyStreamInfo>>

\* _accepts = converter.accepts(...), with NotImplementedError read as False.
AcceptsFlag(returned) == returned = "True"

\* A mutant of Catches: MissingDependencyException is not caught.
CatchesNoMissingDependency(exc) == exc # "MissingDependencyException"

\* The exceptions a converter's convert raises (subclasses of Exception).
ConvertErrors == {"MissingDependencyException"}

\* What except Exception catches: the exceptions of convert, and the
\* AssertionError that comes out of a nested _convert.
ExceptionSubclasses == ConvertErrors \cup {"AssertionError"}

\* except Exception: every exception of convert is caught.
Catches(exc) == exc \in ExceptionSubclasses

FailedConversionAttempt(converter, exc_info) ==
    [converter |-> converter, exc_info |-> exc_info]

\* sys.exc_info() in the except clause: the exception that the convert call
\* of this converter on this trial guess raised.
ExcInfo(type, converter, guess) ==
    [type |-> type, raised_by |-> converter, guess |-> guess]

\* A mutant of RecordFailure: only the latest failure is kept.
RecordFailureLatestOnly(attempts, converter, exc_info) ==
    <<FailedConversionAttempt(converter, exc_info)>>

\* A mutant of RecordFailure: the latest failure is put first.
RecordFailureFirst(attempts, converter, exc_info) ==
    <<FailedConversionAttempt(converter, exc_info)>> \o attempts

\* A mutant of RecordFailure: the exception is swallowed and not recorded.
RecordFailureDropped(attempts, converter, exc_info) == attempts

\* failed_attempts.append(FailedConversionAttempt(converter=..., exc_info=...))
RecordFailure(attempts, converter, exc_info) ==
    Append(attempts, FailedConversionAttempt(converter, exc_info))

\* A mutant of RestorePosition: the stream stays where convert left it.
RestorePositionNot(left_at, restore_point) == left_at

\* finally: file_stream.seek(cur_pos)
RestorePosition(left_at, restore_point) == restore_point

\* A mutant of ReturnsNow: the loop goes on after a result.
ReturnsNowNever(result) == FALSE

\* if res is not None: ... return res
ReturnsNow(result) == result # None

\* A mutant of ExhaustedOutcome: the two exceptions are swapped.
ExhaustedOutcomeSwapped(attempts) ==
    IF Len(attempts) > 0 THEN "UnsupportedFormatException"
    ELSE "FileConversionException"

\* After the loops: FileConversionException(attempts=failed_attempts) if any
\* attempt failed, UnsupportedFormatException otherwise.
ExhaustedOutcome(attempts) ==
    IF Len(attempts) > 0 THEN "FileConversionException"
    ELSE "UnsupportedFormatException"

\* ------------------------------------------------------------ entry points
EntryPoints ==
    {"convert", "convert_local", "convert_stream", "convert_uri", "convert_response"}

\* What a caller passes: the kind of the source and, where the entry point
\* looks at it, whether the source can be opened.
\*   str_*    a string with that URI scheme, or a plain path (str_path)
\*   netloc   of a file: URI ("" | "localhost" | "remote")
\*   ok       the path opens, the data: URI has its comma, the request succeeds
Source(kind, netloc, ok) == [kind |-> kind, netloc |-> netloc, ok |-> ok]

StringKinds == {"str_http", "str_https", "str_file", "str_data", "str_ftp", "str_path"}

Sources ==
    {Source(k, n, o) : k \in StringKinds \cup {"Path", "Response", "BinaryIO", "TextIO", "int"},
                       n \in {"", "localhost", "remote"}, o \in BOOLEAN}

\* The arguments each entry point is declared to take.
SourcesOf(entry) ==
    CASE entry = "convert" -> Sources
      [] entry = "convert_local" -> {s \in Sources : s.kind \in {"str_path", "Path"}}
      [] entry = "convert_stream" -> {s \in Sources : s.kind = "BinaryIO"}
      [] entry = "convert_uri" -> {s \in Sources : s.kind \in StringKinds}
      [] entry = "convert_response" -> {s \in Sources : s.kind = "Response"}

\* convert_local: open(path, "rb") and then guess extraction and _convert.
convert_local(source) == IF source.ok THEN "dispatch" ELSE "OSError"

\* convert_stream: a binary stream is buffered when it is not seekable, then
\* guess extraction and _convert.
convert_stream(source) == "dispatch"

\* convert_response: the body is read into a buffer, then guess extraction
\* and _convert.
convert_response(source) == "dispatch"

\* convert_uri: file:, data:, http: and https: URIs; ValueError otherwise.
convert_uri(source) ==
    CASE source.kind = "str_file" ->
            IF source.netloc \notin {"", "localhost"} THEN "ValueError"
            ELSE convert_local(source)
      [] source.kind = "str_data" ->
            IF source.ok THEN convert_stream(source) ELSE "ValueError"
      [] source.kind \in {"str_http", "str_https"} ->
            IF source.ok THEN convert_response(source) ELSE "HTTPError"
      [] OTHER -> "ValueError"

\* convert: routes on the type of the source; TypeError for anything else.
convert(source) ==
    CASE source.kind \in {"str_http", "str_https", "str_file", "str_data"} -> convert_uri(source)
      [] source.kind \in {"str_ftp", "str_path", "Path"} -> convert_local(source)
      [] source.kind = "Response" -> convert_response(source)
      [] source.kind = "BinaryIO" -> convert_stream(source)
      [] OTHER -> "TypeError"

\* What the call entry(source) does before dispatch: "dispatch" when it gets
\* as far as guess extraction and _convert, the exception it raises otherwise.
EntryOutcome(entry, source) ==
    CASE entry = "convert" -> convert(source)
      [] entry = "convert_local" -> convert_local(source)
      [] entry = "convert_stream" -> convert_stream(source)
      [] entry = "convert_uri" -> convert_uri(source)
      [] entry = "convert_response" -> convert_response(source)

\* ------------------------------------------------------------------ state
VARIABLES
    converters,            \* self._converters, the live registry
    pc,                    \* where the conversion call stands
    failed_call,           \* the entry point call that raised before dispatch
    sorted_registrations,  \* _convert: the sorted copy of the registry
    stream_info_guesses,   \* _convert: the guesses it was handed
    trial_guesses,         \* _convert: the list the outer loop iterates
    gi,                    \* _convert: index of the current trial guess
    ci,                    \* _convert: index of the current registration
    cur_pos,               \* _convert: the restore point
    pos,                   \* file_stream.tell()
    failed_attempts,       \* _convert: the FailedConversionAttempt list
    res,                   \* _convert: the result, or None
    outcome,               \* how the call ended: "result" or the exception
    attempts,              \* the attempts of the raised FileConversionException (else empty)
    calls                  \* history: every accepts and convert call made

VARIABLES
    nested                 \* the _convert frame a container converter started

VARIABLES
    file_stream,           \* guess extraction: the stream, its content and position
    guessing               \* guess extraction: the call, its locals and where it stands

guess_vars == <<file_stream, guessing>>

VARIABLES
    fn_call,               \* a helper function called on its own: name and arguments
    fn_return              \* what that call returned or raised

fn_vars == <<fn_call, fn_return>>

VARIABLES
    first_run              \* the _convert call before this one on the same stream

VARIABLES
    builtins_enabled,      \* self._builtins_enabled
    enable_calls,          \* history: the enable_builtins calls made on the instance
    rss_kwargs,            \* RssConverter: self._kwargs of the registered instance
    rss_calls              \* RssConverter: the convert calls running on that instance

instance_vars == <<builtins_enabled, enable_calls, rss_kwargs, rss_calls>>

\* The variables outside the frame of the outermost _convert.
aux_vars == <<nested, guess_vars, fn_vars, first_run, instance_vars>>

vars ==
    <<converters, pc, failed_call, sorted_registrations, stream_info_guesses,
      trial_guesses, gi, ci, cur_pos, pos, failed_attempts, res, outcome,
      attempts, calls, aux_vars>>

dispatch_vars ==
    <<sorted_registrations, stream_info_guesses, trial_guesses, gi, ci,
      cur_pos, pos, failed_attempts, res, attempts, calls>>

\* No nested dispatch is running, and none has run.
NoNested ==
    [active |-> FALSE, trial_guesses |-> <<>>, gi |-> 0, ci |-> 0, cur_pos |-> 0,
     pos |-> 0, accepted |-> 0, failed_attempts |-> <<>>, entries |-> 0,
     outcome |-> NULL]

\* No guess extraction has been called.
GuessIdle ==
    /\ file_stream = [content |-> <<>>, pos |-> 0]
    /\ guessing = [fn |-> NULL, pc |-> "idle", cur_pos |-> 0, runs |-> <<>>]

\* No helper function has been called on its own.
NoFunctionCall ==
    /\ fn_call = None
    /\ fn_return = None

\* __init__: self._builtins_enabled = False.  No RssConverter runs, and its
\* instance has no _kwargs attribute yet.
InstanceIdle ==
    /\ builtins_enabled = FALSE
    /\ enable_calls = <<>>
    /\ rss_kwargs = NULL
    /\ rss_calls = <<>>

\* MarkItDown(enable_builtins=False): an empty registry, no call made.
Idle ==
    /\ converters = <<>>
    /\ pc = "idle"
    /\ failed_call = None
    /\ sorted_registrations = <<>>
    /\ stream_info_guesses = <<>>
    /\ trial_guesses = <<>>
    /\ gi = 0
    /\ ci = 0
    /\ cur_pos = 0
    /\ pos = 0
    /\ failed_attempts = <<>>
    /\ res = None
    /\ outcome = NULL
    /\ attempts = <<>>
    /\ calls = <<>>
    /\ nested = NoNested
    /\ GuessIdle
    /\ first_run = None
    /\ InstanceIdle

Init == Idle /\ NoFunctionCall

\* The converter of the current pair.
Converter == sorted_registrations[ci].converter

Call(op, out) == [op |-> op, guess |-> gi, converter |-> Converter, out |-> out]

\* The accepts calls of this dispatch that returned True.
Accepted == {i \in 1..Len(calls) : calls[i].op = "accepts" /\ calls[i].out = "True"}

\* What accepts may return for the current pair.
AcceptsReturns ==
    IF Cardinality(Accepted) < MaxAccepts
    THEN {"True", "False", "NotImplementedError"}
    ELSE {"False", "NotImplementedError"}

\* register_converter(converter, priority=...): the converter registered is a
\* new one, named by its place in the order of registration.
RegisterConverter ==
    /\ pc = "idle"
    /\ Len(converters) < MaxRegs
    /\ \E priority \in Priorities :
          converters' = register_converter(converters, Len(converters) + 1, priority)
    /\ UNCHANGED <<pc, failed_call, outcome>>
    /\ UNCHANGED dispatch_vars
    /\ UNCHANGED aux_vars

\* A caller-facing entry point is called.  It raises, or it resolves the
\* source to a stream and goes on to guess extraction and dispatch.
CallEntryPoint ==
    /\ pc = "idle"
    /\ \E entry \in EntryPoints : \E source \in SourcesOf(entry) :
          LET o == EntryOutcome(entry, source)
          IN  IF o = "dispatch"
              THEN /\ pc' = "ready"
                   /\ UNCHANGED <<failed_call, outcome>>
              ELSE /\ pc' = "done"
                   /\ outcome' = o
                   /\ failed_call' = [entry |-> entry, source |-> source]
    /\ UNCHANGED converters
    /\ UNCHANGED dispatch_vars
    /\ UNCHANGED aux_vars

\* A mutant of Advance: the loops stay at the pair they are at.
AdvanceStays ==
    /\ pc' = "accepts"
    /\ UNCHANGED <<gi, ci>>

\* The state after the pair (gi, ci) gave no result: the next registration,
\* the next trial guess, or the end of both loops.
Advance ==
    IF ci < Len(sorted_registrations)
    THEN /\ pc' = "accepts" /\ ci' = ci + 1 /\ gi' = gi
    ELSE IF gi < Len(trial_guesses)
    THEN /\ pc' = "accepts" /\ ci' = 1 /\ gi' = gi + 1
    ELSE /\ pc' = "exhausted" /\ UNCHANGED <<gi, ci>>

\* return res (after the normalisation of its text).
Return ==
    /\ pc' = "done"
    /\ outcome' = "result"
    /\ UNCHANGED <<gi, ci>>

\* The end of the loop body: if res is not None: return res.
EndOfPair(result) ==
    IF ReturnsNow(result) THEN Return ELSE Advance /\ UNCHANGED outcome

\* _convert is entered: the sorted copy of the registry, the restore point
\* and the trial list are taken.
Begin ==
    /\ pc = "ready"
    /\ \E guesses \in GuessLists : \E start \in {0, StreamLen - 1} :
          /\ stream_info_guesses' = guesses
          /\ trial_guesses' = TrialGuesses(guesses)
          /\ cur_pos' = start
          /\ pos' = start
    /\ sorted_registrations' = sorted(converters)
    /\ failed_attempts' = <<>>
    /\ res' = None
    /\ gi' = 1
    /\ ci' = IF converters = <<>> THEN 0 ELSE 1
    /\ pc' = IF converters = <<>> THEN "exhausted" ELSE "accepts"
    /\ UNCHANGED <<converters, failed_call, outcome, attempts, calls>>
    /\ UNCHANGED aux_vars

\* assert cur_pos == file_stream.tell() fails.
AssertionFails ==
    /\ pc' = "done"
    /\ outcome' = "AssertionError"
    /\ UNCHANGED <<gi, ci>>

\* One pass of the loop body for a converter that keeps to the contract of
\* accepts: it returns True or False or raises NotImplementedError, and the
\* stream is where it was.
Accepts ==
    /\ pc = "accepts"
    /\ IF cur_pos # pos
       THEN AssertionFails /\ UNCHANGED calls
       ELSE \E returned \in AcceptsReturns :
               IF AcceptsFlag(returned)
               THEN /\ pc' = "convert"
                    /\ calls' = Append(calls, Call("accepts", "True"))
                    /\ UNCHANGED <<gi, ci, outcome>>
               ELSE /\ calls' = Append(calls, Call("accepts", "False"))
                    /\ EndOfPair(res)
    /\ UNCHANGED <<converters, failed_call, sorted_registrations, stream_info_guesses,
                   trial_guesses, cur_pos, pos, failed_attempts, res, attempts>>
    /\ UNCHANGED aux_vars

\* converter.convert(...) returns a result.
ConvertReturns ==
    /\ pc = "convert"
    /\ \E left_at \in 0..StreamLen : pos' = RestorePosition(left_at, cur_pos)
    /\ res' = [converter |-> Converter, guess |-> gi]
    /\ calls' = Append(calls, Call("convert", "result"))
    /\ EndOfPair(res')
    /\ UNCHANGED <<converters, failed_call, sorted_registrations, stream_info_guesses,
                   trial_guesses, cur_pos, failed_attempts, attempts>>
    /\ UNCHANGED aux_vars

\* converter.convert(...) raises.
ConvertRaises ==
    /\ pc = "convert"
    /\ \E left_at \in 0..StreamLen : pos' = RestorePosition(left_at, cur_pos)
    /\ \E exc \in ConvertErrors :
          IF Catches(exc)
          THEN /\ failed_attempts' =
                     RecordFailure(failed_attempts, Converter, ExcInfo(exc, Converter, gi))
               /\ calls' = Append(calls, Call("convert", exc))
               /\ EndOfPair(res)
          ELSE /\ pc' = "done"
               /\ outcome' = exc
               /\ calls' = Append(calls, Call("convert", exc))
               /\ UNCHANGED <<gi, ci, failed_attempts>>
    /\ UNCHANGED <<converters, failed_call, sorted_registrations, stream_info_guesses,
                   trial_guesses, cur_pos, res, attempts>>
    /\ UNCHANGED aux_vars

\* Both loops are over without a result.
Exhausted ==
    /\ pc = "exhausted"
    /\ pc' = "done"
    /\ outcome' = ExhaustedOutcome(failed_attempts)
    /\ attempts' = IF outcome' = "FileConversionException" THEN failed_attempts ELSE <<>>
    /\ UNCHANGED <<converters, failed_call, sorted_registrations, stream_info_guesses,
                   trial_guesses, gi, ci, cur_pos, pos, failed_attempts, res, calls>>
    /\ UNCHANGED aux_vars

\* A converter that breaks the contract of accepts: it raises something
\* other than NotImplementedError, which _convert does not catch.
AcceptsRaises ==
    /\ pc = "accepts"
    /\ cur_pos = pos
    /\ \E left_at \in {cur_pos, StreamLen} : pos' = left_at
    /\ pc' = "done"
    /\ outcome' = "AcceptsError"
    /\ calls' = Append(calls, Call("accepts", "raised"))
    /\ UNCHANGED <<converters, failed_call, sorted_registrations, stream_info_guesses,
                   trial_guesses, gi, ci, cur_pos, failed_attempts, res, attempts>>
    /\ UNCHANGED aux_vars

\* A converter that breaks the contract of accepts: it returns (or raises
\* NotImplementedError) with the stream moved, and the assertion after
\* accepts fails.
AcceptsMoves ==
    /\ pc = "accepts"
    /\ cur_pos = pos
    /\ pos' = StreamLen
    /\ calls' = Append(calls, Call("accepts", "moved"))
    /\ AssertionFails
    /\ UNCHANGED <<converters, failed_call, sorted_registrations, stream_info_guesses,
                   trial_guesses, cur_pos, failed_attempts, res, attempts>>
    /\ UNCHANGED aux_vars

\* A converter whose convert returns None instead of a result.
ConvertReturnsNone ==
    /\ pc = "convert"
    /\ \E left_at \in 0..StreamLen : pos' = RestorePosition(left_at, cur_pos)
    /\ calls' = Append(calls, Call("convert", "None"))
    /\ EndOfPair(res)
    /\ UNCHANGED <<converters, failed_call, sorted_registrations, stream_info_guesses,
                   trial_guesses, cur_pos, failed_attempts, res, attempts>>
    /\ UNCHANGED aux_vars

\* Converters that keep to the DocumentConverter contract.
Next ==
    \/ RegisterConverter
    \/ CallEntryPoint
    \/ Begin
    \/ Accepts
    \/ ConvertReturns
    \/ ConvertRaises
    \/ Exhausted

Spec == Init /\ [][Next]_vars

\* Any converter, the ones that break the contract included.
NextAnyConverter ==
    \/ Next
    \/ AcceptsRaises
    \/ AcceptsMoves
    \/ ConvertReturnsNone

SpecAnyConverter == Init /\ [][NextAnyConverter]_vars

\* --------------------------------------------------------- nested dispatch
\* A container converter (ZipConverter) calls convert_stream of the same
\* MarkItDown for each archive entry from inside its own convert; the nested
\* _convert has its own stream, restore point, trial list and failed
\* attempts, and the same registry.

\* The converter of the current pair of the nested frame.
NestedConverter == sorted_registrations[nested.ci].converter

\* What accepts may return for the current pair of the nested frame.
NestedAcceptsReturns ==
    IF nested.accepted < MaxAccepts
    THEN {"True", "False", "NotImplementedError"}
    ELSE {"False", "NotImplementedError"}

\* ZipConverter.convert: z_file_stream = io.BytesIO(zipObj.read(name)) and
\* self._markitdown.convert_stream(stream=z_file_stream, stream_info=...),
\* which extracts at least one guess and enters _convert at position 0.
ConvertNests ==
    /\ pc = "convert"
    /\ ~nested.active
    /\ nested.entries < MaxEntries
    /\ \E guesses \in {g \in GuessLists : Len(g) >= 1} :
          nested' = [NoNested EXCEPT !.active = TRUE,
                                     !.trial_guesses = TrialGuesses(guesses),
                                     !.gi = 1, !.ci = 1,
                                     !.entries = nested.entries]
    /\ pc' = "nested_accepts"
    /\ UNCHANGED <<converters, failed_call, sorted_registrations, stream_info_guesses,
                   trial_guesses, gi, ci, cur_pos, pos, failed_attempts, res, outcome,
                   attempts, calls>>
    /\ UNCHANGED <<guess_vars, fn_vars, first_run, instance_vars>>

\* The nested frame after its pair gave no result.
NestedAdvance(frame) ==
    IF frame.ci < Len(sorted_registrations)
    THEN /\ pc' = "nested_accepts"
         /\ nested' = [frame EXCEPT !.ci = frame.ci + 1]
    ELSE IF frame.gi < Len(frame.trial_guesses)
    THEN /\ pc' = "nested_accepts"
         /\ nested' = [frame EXCEPT !.ci = 1, !.gi = frame.gi + 1]
    ELSE /\ pc' = "nested_exhausted"
         /\ nested' = frame

\* The frame of a nested _convert that is over: its locals are gone, how it
\* ended is kept.
NestedOver(how) ==
    [NoNested EXCEPT !.entries = nested.entries + 1, !.outcome = how]

\* The nested loop body, for a converter that keeps the contract of accepts.
NestedAccepts ==
    /\ pc = "nested_accepts"
    /\ \E returned \in NestedAcceptsReturns :
          IF AcceptsFlag(returned)
          THEN /\ pc' = "nested_convert"
               /\ nested' = [nested EXCEPT !.accepted = nested.accepted + 1]
          ELSE NestedAdvance(nested)
    /\ UNCHANGED <<converters, failed_call, sorted_registrations, stream_info_guesses,
                   trial_guesses, gi, ci, cur_pos, pos, failed_attempts, res, outcome,
                   attempts, calls>>
    /\ UNCHANGED <<guess_vars, fn_vars, first_run, instance_vars>>

\* In the nested frame accepts returns with the entry's stream moved: the
\* assertion of the nested _convert fails.  The AssertionError leaves
\* convert_stream and ZipConverter.convert (which catches only
\* UnsupportedFormatException and FileConversionException) and arrives in the
\* try block around converter.convert(...) of the enclosing _convert.
NestedAcceptsMoves ==
    /\ pc = "nested_accepts"
    /\ nested' = NestedOver("AssertionError")
    /\ \E left_at \in 0..StreamLen : pos' = RestorePosition(left_at, cur_pos)
    /\ LET exc == "AssertionError"
       IN  IF Catches(exc)
           THEN /\ failed_attempts' =
                      RecordFailure(failed_attempts, Converter, ExcInfo(exc, Converter, gi))
                /\ calls' = Append(calls, Call("convert", exc))
                /\ EndOfPair(res)
           ELSE /\ pc' = "done"
                /\ outcome' = exc
                /\ calls' = Append(calls, Call("convert", exc))
                /\ UNCHANGED <<gi, ci, failed_attempts>>
    /\ UNCHANGED <<converters, failed_call, sorted_registrations, stream_info_guesses,
                   trial_guesses, cur_pos, res, attempts>>
    /\ UNCHANGED <<guess_vars, fn_vars, first_run, instance_vars>>

\* The nested convert returns a result: the nested _convert returns it and
\* the container's convert adds it to its markdown and goes on.
NestedConvertReturns ==
    /\ pc = "nested_convert"
    /\ pc' = "convert"
    /\ nested' = NestedOver("result")
    /\ UNCHANGED <<converters, failed_call, sorted_registrations, stream_info_guesses,
                   trial_guesses, gi, ci, cur_pos, pos, failed_attempts, res, outcome,
                   attempts, calls>>
    /\ UNCHANGED <<guess_vars, fn_vars, first_run, instance_vars>>

\* The nested convert raises: a failed attempt of the nested frame.
NestedConvertRaises ==
    /\ pc = "nested_convert"
    /\ \E exc \in ConvertErrors :
          NestedAdvance([nested EXCEPT !.failed_attempts =
              RecordFailure(nested.failed_attempts, NestedConverter,
                            ExcInfo(exc, NestedConverter, nested.gi))])
    /\ UNCHANGED <<converters, failed_call, sorted_registrations, stream_info_guesses,
                   trial_guesses, gi, ci, cur_pos, pos, failed_attempts, res, outcome,
                   attempts, calls>>
    /\ UNCHANGED <<guess_vars, fn_vars, first_run, instance_vars>>

\* A mutant of SkipsEntry: only UnsupportedFormatException is passed over.
SkipsEntryUnsupportedOnly(exc) == exc = "UnsupportedFormatException"

\* ZipConverter.convert: except UnsupportedFormatException: pass
\*                       except FileConversionException: pass
SkipsEntry(exc) == exc \in {"UnsupportedFormatException", "FileConversionException"}

\* The nested loops are over without a result: the nested _convert raises
\* UnsupportedFormatException or FileConversionException, ZipConverter.convert
\* passes over the entry and goes on.
NestedExhausted ==
    /\ pc = "nested_exhausted"
    /\ LET exc == ExhaustedOutcome(nested.failed_attempts)
       IN  /\ nested' = NestedOver(exc)
           /\ IF SkipsEntry(exc)
              THEN /\ pc' = "convert"
                   /\ UNCHANGED <<gi, ci, pos, failed_attempts, outcome, calls>>
              ELSE /\ \E left_at \in 0..StreamLen : pos' = RestorePosition(left_at, cur_pos)
                   /\ failed_attempts' =
                         RecordFailure(failed_attempts, Converter, ExcInfo(exc, Converter, gi))
                   /\ calls' = Append(calls, Call("convert", exc))
                   /\ EndOfPair(res)
    /\ UNCHANGED <<converters, failed_call, sorted_registrations, stream_info_guesses,
                   trial_guesses, cur_pos, res, attempts>>
    /\ UNCHANGED <<guess_vars, fn_vars, first_run, instance_vars>>

\* Container converters, and converters whose accepts moves the stream.
NextNested ==
    \/ Next
    \/ AcceptsMoves
    \/ ConvertNests
    \/ NestedAccepts
    \/ NestedAcceptsMoves
    \/ NestedConvertReturns
    \/ NestedConvertRaises
    \/ NestedExhausted

SpecNested == Init /\ [][NextNested]_vars

\* The container converter at the place of ZipConverter: registered with
\* the generic priority it is the last of the sorted copy, and it opens the
\* archive under the first supplied guess (it accepts on an extension or a
\* mimetype, which the fallback StreamInfo() has not), after the converters
\* before it declined or failed.  All converters keep the contract of
\* accepts.
NextContainer ==
    \/ Next
    \/ ConvertNests /\ gi = 1 /\ ci = Len(sorted_registrations) /\ stream_info_guesses # <<>>
    \/ NestedAccepts
    \/ NestedConvertReturns
    \/ NestedConvertRaises
    \/ NestedExhausted

SpecContainer == Init /\ [][NextContainer]_vars

\* ------------------------------------------- accepts that is not implemented
\* A converter that does not override DocumentConverter.accepts: the call
\* raises NotImplementedError, which _convert catches and passes over, and
\* _accepts stays False.

\* A mutant of AcceptsOnNotImplemented: the exception counts as acceptance.
AcceptsOnNotImplementedTrue(initial) == TRUE

\* _accepts = False; try: _accepts = converter.accepts(...)
\* except NotImplementedError: pass -- _accepts keeps its initial value.
AcceptsOnNotImplemented(initial) == initial

AcceptsNotImplemented ==
    /\ pc = "accepts"
    /\ cur_pos = pos
    /\ calls' = Append(calls, Call("accepts", "NotImplementedError"))
    /\ IF AcceptsOnNotImplemented(FALSE)
       THEN /\ pc' = "convert"
            /\ UNCHANGED <<gi, ci, outcome>>
       ELSE EndOfPair(res)
    /\ UNCHANGED <<converters, failed_call, sorted_registrations, stream_info_guesses,
                   trial_guesses, cur_pos, pos, failed_attempts, res, attempts>>
    /\ UNCHANGED aux_vars

\* A registry of converters whose accepts returns True and of converters
\* that do not implement it.
NextNotImplemented ==
    \/ RegisterConverter
    \/ CallEntryPoint
    \/ Begin
    \/ Accepts /\ pc' = "convert"
    \/ AcceptsNotImplemented
    \/ ConvertReturns
    \/ ConvertRaises
    \/ Exhausted

SpecNotImplemented == Init /\ [][NextNotImplemented]_vars

\* ------------------------------------------------------- dispatching twice
\* _convert is called a second time on the same stream, with the same
\* guesses and the same registry.  The converters are deterministic: a call
\* answers as every earlier call of the same method of the same converter
\* with the same guess and the stream at the same position did.

\* A mutant of NewFailedAttempts: the list of the call before is kept.
NewFailedAttemptsKept(previous) == previous

\* failed_attempts: List[FailedConversionAttempt] = []
NewFailedAttempts(previous) == <<>>

\* An earlier call had the same input as a later one: the same method of
\* the same converter with the same guess (the stream is at the same
\* position in every call).
SameInput(earlier, later) ==
    /\ earlier.op = later.op
    /\ earlier.converter = later.converter
    /\ trial_guesses[earlier.guess] = trial_guesses[later.guess]

\* The call just made answered as the earlier calls with the same input did:
\* those of this _convert call and those of the first.
Deterministic ==
    Len(calls') > Len(calls) =>
       LET latest == calls'[Len(calls')]
       IN  /\ \A k \in 1..Len(calls) :
                 SameInput(calls[k], latest) => calls[k].out = latest.out
           /\ first_run # None =>
                 \A k \in 1..Len(first_run.calls) :
                    SameInput(first_run.calls[k], latest) =>
                       first_run.calls[k].out = latest.out

\* What is kept of a _convert call that is over.
RunRecord ==
    [outcome |-> outcome, res |-> res, failed_attempts |-> failed_attempts,
     calls |-> calls, cur_pos |-> cur_pos, left_at |-> pos]

\* _convert is entered again with the same guesses, on the same stream at
\* the position where the first call started.
ConvertAgain ==
    /\ pc = "done"
    /\ failed_call = None
    /\ first_run = None
    /\ first_run' = RunRecord
    /\ sorted_registrations' = sorted(converters)
    /\ pos' = cur_pos
    /\ failed_attempts' = NewFailedAttempts(failed_attempts)
    /\ res' = None
    /\ gi' = 1
    /\ ci' = IF converters = <<>> THEN 0 ELSE 1
    /\ pc' = IF converters = <<>> THEN "exhausted" ELSE "accepts"
    /\ outcome' = NULL
    /\ attempts' = <<>>
    /\ calls' = <<>>
    /\ UNCHANGED <<converters, failed_call, stream_info_guesses, trial_guesses, cur_pos>>
    /\ UNCHANGED <<nested, guess_vars, fn_vars, instance_vars>>

\* Converters whose accepts keeps to its contract; convert may return a
\* result or None, or raise.
NextTwice ==
    \/ (Next \/ ConvertReturnsNone) /\ Deterministic
    \/ ConvertAgain

SpecTwice == Init /\ [][NextTwice]_vars

\* ------------------------------------------- conversions running together
\* enable_builtins registers one RssConverter instance, and every _convert
\* on the MarkItDown instance calls convert on it.  Its convert keeps the
\* options of the call in self._kwargs, and _parse_content reads them from
\* there for every item of the feed.  Threads running convert on the one
\* instance interleave between these statements.
MaxThreads == 2
MaxItems == 2

\* The keyword options of a conversion call, each call with a dict of its own.
CallOptions == {"keep_data_uris=True", "keep_data_uris=False"}

\* A convert call on the RssConverter: the options it was called with, where
\* it stands, and the options _parse_content has applied to its items.
RssCall(kwargs) == [kwargs |-> kwargs, pc |-> "parse", applied |-> <<>>]

\* RssConverter.convert is entered: self._kwargs = kwargs.
RssConvert ==
    /\ Len(rss_calls) < MaxThreads
    /\ \E kwargs \in CallOptions :
          /\ rss_kwargs' = kwargs
          /\ rss_calls' = Append(rss_calls, RssCall(kwargs))
    /\ UNCHANGED <<builtins_enabled, enable_calls>>
    /\ UNCHANGED <<converters, pc, failed_call, outcome, dispatch_vars, nested, guess_vars,
                   fn_vars, first_run>>

\* _parse_content of one item: _CustomMarkdownify(**self._kwargs).
RssParseContent ==
    /\ \E t \in 1..Len(rss_calls) :
          /\ rss_calls[t].pc = "parse"
          /\ Len(rss_calls[t].applied) < MaxItems
          /\ rss_calls' = [rss_calls EXCEPT ![t].applied = Append(@, rss_kwargs)]
    /\ UNCHANGED <<builtins_enabled, enable_calls, rss_kwargs>>
    /\ UNCHANGED <<converters, pc, failed_call, outcome, dispatch_vars, nested, guess_vars,
                   fn_vars, first_run>>

\* RssConverter.convert returns its DocumentConverterResult.
RssReturns ==
    /\ \E t \in 1..Len(rss_calls) :
          /\ rss_calls[t].pc = "parse"
          /\ rss_calls' = [rss_calls EXCEPT ![t].pc = "returned"]
    /\ UNCHANGED <<builtins_enabled, enable_calls, rss_kwargs>>
    /\ UNCHANGED <<converters, pc, failed_call, outcome, dispatch_vars, nested, guess_vars,
                   fn_vars, first_run>>

NextRss ==
    \/ RssConvert
    \/ RssParseContent
    \/ RssReturns

SpecRss == Init /\ [][NextRss]_vars

\* ------------------------------------------- registering while dispatching
\* A mutant of Snapshot: _convert iterates the registry itself, not a copy.
SnapshotAliased(taken, live) == sorted(live)

\* sorted(self._converters, ...) builds a new list: what the loops iterate
\* is the list taken at the start, whatever the registry holds by now.
Snapshot(taken, live) == taken

\* Where a dispatch in flight stands.
InFlight == pc \in {"accepts", "convert", "exhausted"}

\* register_converter is called while _convert runs: by another thread, or
\* by the converter whose accepts or convert is being called.  The insert
\* goes into self._converters; the list the loops iterate is
\* Snapshot(sorted_registrations, self._converters).
RegisterInFlight ==
    /\ InFlight
    /\ Len(converters) < MaxRegs
    /\ \E priority \in Priorities :
          converters' = register_converter(converters, Len(converters) + 1, priority)
    /\ sorted_registrations' = Snapshot(sorted_registrations, converters')
    /\ UNCHANGED <<pc, failed_call, stream_info_guesses, trial_guesses, gi, ci, cur_pos,
                   pos, failed_attempts, res, outcome, attempts, calls>>
    /\ UNCHANGED aux_vars

\* The call is over and the caller makes another one on the same instance.
CallAgain ==
    /\ pc = "done"
    /\ pc' = "idle"
    /\ failed_call' = None
    /\ sorted_registrations' = <<>>
    /\ stream_info_guesses' = <<>>
    /\ trial_guesses' = <<>>
    /\ gi' = 0
    /\ ci' = 0
    /\ cur_pos' = 0
    /\ pos' = 0
    /\ failed_attempts' = <<>>
    /\ res' = None
    /\ outcome' = NULL
    /\ attempts' = <<>>
    /\ calls' = <<>>
    /\ UNCHANGED converters
    /\ UNCHANGED aux_vars

NextInFlight ==
    \/ Next
    \/ RegisterInFlight
    \/ CallAgain

SpecInFlight == Init /\ [][NextInFlight]_vars

\* Every accepts call and every convert call returns or raises, and the
\* thread that runs _convert is scheduled.
SpecInFlightFair ==
    /\ SpecInFlight
    /\ WF_vars(Accepts)
    /\ WF_vars(ConvertReturns \/ ConvertRaises)
    /\ WF_vars(Exhausted)

\* --------------------------------------------------------- guess extraction
\* MarkItDown._get_stream_info_guesses and _guess_stream_info_from_stream
\* read ahead in the stream to classify its content.  A stream is its
\* bytes, told apart only as ASCII whitespace ("ws") or not ("b"), and its
\* read position.
Bytes == {"ws", "b"}

Streams ==
    {[content |-> c, pos |-> p] :
        c \in SeqsUpTo(Bytes, StreamLen), p \in 0..StreamLen} \cap
    {f \in [content : SeqsUpTo(Bytes, StreamLen), pos : 0..StreamLen] :
        f.pos <= Len(f.content)}

GuessFunctions == {"_get_stream_info_guesses", "_guess_stream_info_from_stream"}

\* What one run of a content classifier (magika's identify_stream,
\* puremagic's magic_stream) comes to: a type, a text type, no type
\* (puremagic: no match or PureError; magika: "unknown" or a status other
\* than "ok"), or an exception of its own.
ClassifierResults == {"type", "text", "none", "error"}

\* A classifier run started with the stream at position at.
Run(at, out) == [at |-> at, out |-> out]

\* Everything outside guess extraction.
OutsideGuess ==
    <<converters, pc, failed_call, outcome, dispatch_vars, nested, fn_vars, first_run,
      instance_vars>>

\* file_stream.seek(cur_pos)
SeekBack(stream, to) == [stream EXCEPT !.pos = to]

\* file_stream.read(n): the stream after reading up to n bytes.
Read(stream, n) ==
    [stream EXCEPT !.pos = IF stream.pos + n > Len(stream.content)
                           THEN Len(stream.content) ELSE stream.pos + n]

\* A mutant of EatWhitespace: no whitespace is skipped.
EatWhitespaceNot(stream) == stream

\* The while loop of _guess_stream_info_from_stream: read byte by byte, stop
\* at end of file, or step back before the first byte that is no whitespace.
RECURSIVE EatWhitespace(_)
EatWhitespace(stream) ==
    IF stream.pos >= Len(stream.content) THEN stream
    ELSE IF stream.content[stream.pos + 1] # "ws" THEN stream
    ELSE EatWhitespace(Read(stream, 1))

\* The function is called with a stream; cur_pos = file_stream.tell().
GuessEnter ==
    /\ guessing.pc = "idle"
    /\ \E fn \in GuessFunctions : \E stream \in Streams :
          /\ file_stream' = stream
          /\ guessing' = [fn |-> fn, pc |-> "classify", cur_pos |-> stream.pos,
                          runs |-> <<>>]
    /\ UNCHANGED OutsideGuess

\* _get_stream_info_guesses: self._magika.identify_stream(file_stream), which
\* leaves the stream wherever it read last.  An exception passes through
\* the finally clause.
MagikaIdentifies ==
    /\ guessing.fn = "_get_stream_info_guesses"
    /\ guessing.pc = "classify"
    /\ \E out \in ClassifierResults : \E left_at \in 0..Len(file_stream.content) :
          LET moved == [file_stream EXCEPT !.pos = left_at]
              runs  == Append(guessing.runs, Run(file_stream.pos, out))
          IN  CASE out = "text" ->
                     /\ file_stream' = moved
                     /\ guessing' = [guessing EXCEPT !.pc = "charset", !.runs = runs]
                [] out = "error" ->
                     /\ file_stream' = SeekBack(moved, guessing.cur_pos)
                     /\ guessing' = [guessing EXCEPT !.pc = "raised", !.runs = runs]
                [] OTHER ->
                     /\ file_stream' = SeekBack(moved, guessing.cur_pos)
                     /\ guessing' = [guessing EXCEPT !.pc = "returned", !.runs = runs]
    /\ UNCHANGED OutsideGuess

\* _get_stream_info_guesses, text: seek(cur_pos), read(4096) for
\* charset_normalizer (which may raise), the guesses, and the finally clause.
CharsetReadAhead ==
    /\ guessing.fn = "_get_stream_info_guesses"
    /\ guessing.pc = "charset"
    /\ \E raises \in BOOLEAN :
          /\ file_stream' =
                SeekBack(Read(SeekBack(file_stream, guessing.cur_pos), CHARSET_PAGE),
                         guessing.cur_pos)
          /\ guessing' = [guessing EXCEPT !.pc = IF raises THEN "raised" ELSE "returned"]
    /\ UNCHANGED OutsideGuess

\* _guess_stream_info_from_stream: _puremagic(file_stream, ...), first run.
\* PureError is caught inside _puremagic and gives no guesses; any other
\* exception of puremagic leaves the function at once.
Puremagic ==
    /\ guessing.fn = "_guess_stream_info_from_stream"
    /\ guessing.pc = "classify"
    /\ \E out \in ClassifierResults \ {"text"} :
       \E left_at \in 0..Len(file_stream.content) :
          LET moved == [file_stream EXCEPT !.pos = left_at]
              runs  == Append(guessing.runs, Run(file_stream.pos, out))
          IN  CASE out = "none" ->
                     /\ file_stream' = moved
                     /\ guessing' = [guessing EXCEPT !.pc = "trim", !.runs = runs]
                [] out = "error" ->
                     /\ file_stream' = moved
                     /\ guessing' = [guessing EXCEPT !.pc = "raised", !.runs = runs]
                [] OTHER ->
                     /\ file_stream' = SeekBack(moved, guessing.cur_pos)
                     /\ guessing' = [guessing EXCEPT !.pc = "returned", !.runs = runs]
    /\ UNCHANGED OutsideGuess

\* _guess_stream_info_from_stream, no guesses: seek(cur_pos), eat the leading
\* whitespace, and run _puremagic again.
PuremagicAgain ==
    /\ guessing.fn = "_guess_stream_info_from_stream"
    /\ guessing.pc = "trim"
    /\ \E out \in ClassifierResults \ {"text"} :
       \E left_at \in 0..Len(file_stream.content) :
          LET trimmed == EatWhitespace(SeekBack(file_stream, guessing.cur_pos))
              moved   == [trimmed EXCEPT !.pos = left_at]
              runs    == Append(guessing.runs, Run(trimmed.pos, out))
          IN  IF out = "error"
              THEN /\ file_stream' = moved
                   /\ guessing' = [guessing EXCEPT !.pc = "raised", !.runs = runs]
              ELSE /\ file_stream' = SeekBack(moved, guessing.cur_pos)
                   /\ guessing' = [guessing EXCEPT !.pc = "returned", !.runs = runs]
    /\ UNCHANGED OutsideGuess

NextGuess ==
    \/ GuessEnter
    \/ MagikaIdentifies
    \/ CharsetReadAhead
    \/ Puremagic
    \/ PuremagicAgain

SpecGuess == Init /\ [][NextGuess]_vars

\* ------------------------------------------------------ helper functions
\* Functions of the program that compute a value from their arguments are
\* called on their own: fn_call holds the call, fn_return what it gave.
OutsideFunction ==
    <<converters, pc, failed_call, outcome, dispatch_vars, nested, guess_vars, first_run,
      instance_vars>>

Returned(value) == [value |-> value]

Raised(exc) == [raised |-> exc]

\* ------------------------------------------------- buffering the stream
\* convert_stream hands guess extraction and _convert a stream it can seek.
\* A stream is its bytes, how many of them have been read, and whether it
\* is seekable.
READ_CHUNK == 4096

\* stream.read(n) of a stream that gives at most short bytes at a time (a
\* pipe or a socket gives what it has): the bytes read.
ReadChunk(stream, n, short) ==
    LET want == IF short < n THEN short ELSE n
        left == Len(stream.content) - stream.pos
        got  == IF want < left THEN want ELSE left
    IN  SubSeq(stream.content, stream.pos + 1, stream.pos + got)

\* buffer.write(chunk): the chunk goes in at the buffer's position.
Write(buffer, chunk) ==
    [buffer EXCEPT !.content = SubSeq(buffer.content, 1, buffer.pos) \o chunk,
                   !.pos = buffer.pos + Len(chunk)]

\* while True: chunk = stream.read(4096); if not chunk: break;
\* buffer.write(chunk)
RECURSIVE ReadInto(_, _, _)
ReadInto(buffer, stream, short) ==
    LET chunk == ReadChunk(stream, READ_CHUNK, short)
    IN  IF chunk = <<>> THEN buffer
        ELSE ReadInto(Write(buffer, chunk),
                      [stream EXCEPT !.pos = stream.pos + Len(chunk)], short)

\* A mutant of Rewind: the buffer stays at its end.
RewindNot(buffer) == buffer

\* buffer.seek(0)
Rewind(buffer) == [buffer EXCEPT !.pos = 0]

\* io.BytesIO()
BytesIO == [content |-> <<>>, pos |-> 0, seekable |-> TRUE]

\* convert_stream: the stream that _get_stream_info_guesses and _convert are
\* called with.
seekable_stream(stream, short) ==
    IF ~stream.seekable THEN Rewind(ReadInto(BytesIO, stream, short)) ELSE stream

\* The streams a caller passes: read up to some position, seekable or not;
\* and how much a read of the stream gives at a time.
ConvertStreamCalls ==
    {[fn |-> "convert_stream", stream |-> [content |-> c, pos |-> p, seekable |-> k],
      short |-> n] :
        c \in SeqsUpTo(Bytes, StreamLen), p \in 0..StreamLen, k \in BOOLEAN,
        n \in {1, READ_CHUNK}} \cap
    {call \in [fn : {"convert_stream"},
               stream : [content : SeqsUpTo(Bytes, StreamLen), pos : 0..StreamLen,
                         seekable : BOOLEAN],
               short : {1, READ_CHUNK}] :
        call.stream.pos <= Len(call.stream.content)}

InitConvertStream ==
    /\ Idle
    /\ fn_call \in ConvertStreamCalls
    /\ fn_return = None

\* convert_stream up to its calls of guess extraction and _convert.
ConvertStreamBuffers ==
    /\ fn_call # None
    /\ fn_call.fn = "convert_stream"
    /\ fn_return = None
    /\ fn_return' = Returned(seekable_stream(fn_call.stream, fn_call.short))
    /\ UNCHANGED fn_call
    /\ UNCHANGED OutsideFunction

NextConvertStream == ConvertStreamBuffers

SpecConvertStream == InitConvertStream /\ [][NextConvertStream]_vars

\* ------------------------------------------------ enabling the built-ins
MaxEnableCalls == 3

\* The converters enable_builtins registers, in the order of its
\* register_converter calls.
BuiltinRegistration(class, priority) == [class |-> class, priority |-> priority]

Builtins ==
    <<BuiltinRegistration("PlainTextConverter", PRIORITY_GENERIC_FILE_FORMAT),
      BuiltinRegistration("ZipConverter", PRIORITY_GENERIC_FILE_FORMAT),
      BuiltinRegistration("HtmlConverter", PRIORITY_GENERIC_FILE_FORMAT),
      BuiltinRegistration("RssConverter", PRIORITY_SPECIFIC_FILE_FORMAT),
      BuiltinRegistration("WikipediaConverter", PRIORITY_SPECIFIC_FILE_FORMAT),
      BuiltinRegistration("YouTubeConverter", PRIORITY_SPECIFIC_FILE_FORMAT),
      BuiltinRegistration("BingSerpConverter", PRIORITY_SPECIFIC_FILE_FORMAT),
      BuiltinRegistration("DocxConverter", PRIORITY_SPECIFIC_FILE_FORMAT),
      BuiltinRegistration("XlsxConverter", PRIORITY_SPECIFIC_FILE_FORMAT),
      BuiltinRegistration("XlsConverter", PRIORITY_SPECIFIC_FILE_FORMAT),
      BuiltinRegistration("PptxConverter", PRIORITY_SPECIFIC_FILE_FORMAT),
      BuiltinRegistration("AudioConverter", PRIORITY_SPECIFIC_FILE_FORMAT),
      BuiltinRegistration("ImageConverter", PRIORITY_SPECIFIC_FILE_FORMAT),
      BuiltinRegistration("IpynbConverter", PRIORITY_SPECIFIC_FILE_FORMAT),
      BuiltinRegistration("PdfConverter", PRIORITY_SPECIFIC_FILE_FORMAT),
      BuiltinRegistration("OutlookMsgConverter", PRIORITY_SPECIFIC_FILE_FORMAT),
      BuiltinRegistration("EpubConverter", PRIORITY_SPECIFIC_FILE_FORMAT),
      BuiltinRegistration("CsvConverter", PRIORITY_SPECIFIC_FILE_FORMAT)>>

\* The register_converter calls of enable_builtins, one after the other.
RECURSIVE RegisterAll(_, _)
RegisterAll(regs, classes) ==
    IF classes = <<>> THEN regs
    ELSE RegisterAll(register_converter(regs, Head(classes).class, Head(classes).priority),
                     Tail(classes))

\* The keyword arguments of enable_builtins that matter here.
EnableKwargs == [docintel_endpoint : {NULL, "endpoint"}, llm_client : {NULL, "client"}]

\* DocumentIntelligenceConverter(**docintel_args): the constructor raises
\* MissingDependencyException when the import of the azure packages failed
\* at module load.
DocumentIntelligenceConverter(az_doc_intel) ==
    IF az_doc_intel THEN Returned("DocumentIntelligenceConverter")
    ELSE Raised("MissingDependencyException")

\* enable_builtins(**kwargs).  az_doc_intel says whether the optional
\* dependency is installed, which is the same for every call of a process.
EnableBuiltins ==
    /\ Len(enable_calls) < MaxEnableCalls
    /\ \E kwargs \in EnableKwargs : \E az_doc_intel \in BOOLEAN :
          /\ \A k \in 1..Len(enable_calls) : enable_calls[k].az_doc_intel = az_doc_intel
          /\ IF ~builtins_enabled
             THEN LET registered == RegisterAll(converters, Builtins)
                      docintel   == DocumentIntelligenceConverter(az_doc_intel)
                  IN  IF kwargs.docintel_endpoint = NULL
                      THEN /\ converters' = registered
                           /\ builtins_enabled' = TRUE
                           /\ enable_calls' = Append(enable_calls,
                                 [kwargs |-> kwargs, az_doc_intel |-> az_doc_intel,
                                  out |-> "returned"])
                      ELSE IF docintel = Raised("MissingDependencyException")
                      THEN /\ converters' = registered
                           /\ UNCHANGED builtins_enabled
                           /\ enable_calls' = Append(enable_calls,
                                 [kwargs |-> kwargs, az_doc_intel |-> az_doc_intel,
                                  out |-> "MissingDependencyException"])
                      ELSE /\ converters' =
                                 register_converter(registered, docintel.value,
                                                    PRIORITY_SPECIFIC_FILE_FORMAT)
                           /\ builtins_enabled' = TRUE
                           /\ enable_calls' = Append(enable_calls,
                                 [kwargs |-> kwargs, az_doc_intel |-> az_doc_intel,
                                  out |-> "returned"])
             ELSE /\ UNCHANGED <<converters, builtins_enabled>>
                  /\ enable_calls' = Append(enable_calls,
                        [kwargs |-> kwargs, az_doc_intel |-> az_doc_intel,
                         out |-> "RuntimeWarning"])
    /\ UNCHANGED <<rss_kwargs, rss_calls>>
    /\ UNCHANGED <<pc, failed_call, outcome, dispatch_vars, nested, guess_vars, fn_vars,
                   first_run>>

NextBuiltins == EnableBuiltins

SpecBuiltins == Init /\ [][NextBuiltins]_vars

\* ------------------------------------------------------ result normalizer
\* _convert normalizes res.text_content before it returns the result.  A
\* text is a sequence of characters: a letter, a blank, a carriage return
\* or a line feed.
Chars == {"x", " ", "\r", "\n"}

\* str.isspace of the characters above.
Whitespace == {" ", "\r", "\n"}

Texts == SeqsUpTo(Chars, MaxText)

\* s without its last character.
Front(s) == SubSeq(s, 1, Len(s) - 1)

\* re.split(r"\r?\n", text): the pieces between the separators, a separator
\* being a line feed together with one carriage return right before it.
RECURSIVE SplitFrom(_, _, _)
SplitFrom(text, i, line) ==
    IF i > Len(text) THEN <<line>>
    ELSE IF text[i] = "\n"
         THEN <<IF line # <<>> /\ line[Len(line)] = "\r" THEN Front(line) ELSE line>>
              \o SplitFrom(text, i + 1, <<>>)
         ELSE SplitFrom(text, i + 1, Append(line, text[i]))

Split(text) == SplitFrom(text, 1, <<>>)

\* line.rstrip() that takes off blanks only.
RECURSIVE RStripBlanksOnly(_)
RStripBlanksOnly(line) ==
    IF line # <<>> /\ line[Len(line)] = " "
    THEN RStripBlanksOnly(Front(line))
    ELSE line

\* line.rstrip(): without the whitespace at its end.
RECURSIVE RStrip(_)
RStrip(line) ==
    IF line # <<>> /\ line[Len(line)] \in Whitespace
    THEN RStrip(Front(line))
    ELSE line

\* "\n".join(lines)
RECURSIVE Join(_)
Join(lines) ==
    IF Len(lines) = 0 THEN <<>>
    ELSE IF Len(lines) = 1 THEN lines[1]
    ELSE lines[1] \o <<"\n">> \o Join(Tail(lines))

\* The number of line feeds text starts with from position i on.
RECURSIVE NewlinesAt(_, _)
NewlinesAt(text, i) ==
    IF i <= Len(text) /\ text[i] = "\n" THEN 1 + NewlinesAt(text, i + 1) ELSE 0

\* re.sub(r"\n{3}", "\n\n", text): three line feeds at a time.
RECURSIVE CollapseThrees(_, _)
CollapseThrees(text, i) ==
    IF i > Len(text) THEN <<>>
    ELSE IF NewlinesAt(text, i) >= 3
         THEN <<"\n", "\n">> \o CollapseThrees(text, i + 3)
         ELSE <<text[i]>> \o CollapseThrees(text, i + 1)

\* re.sub(r"\n{3,}", "\n\n", text): left to right, the longest run each time.
RECURSIVE Collapse(_, _)
Collapse(text, i) ==
    IF i > Len(text) THEN <<>>
    ELSE LET n == NewlinesAt(text, i)
         IN  IF n >= 3
             THEN <<"\n", "\n">> \o Collapse(text, i + n)
             ELSE <<text[i]>> \o Collapse(text, i + 1)

\* The lines of text, each right-trimmed, joined again.
TrimLines(text) ==
    LET lines == Split(text)
    IN  Join([k \in 1..Len(lines) |-> RStrip(lines[k])])

\* The normalization of _convert.
Normalize(text) == Collapse(TrimLines(text), 1)

\* A converter has returned a text; _convert is about to normalize it.
ConverterTexts ==
    {[fn |-> "normalize", text |-> t, again |-> FALSE] : t \in Texts}

InitNormalize ==
    /\ Idle
    /\ fn_call \in ConverterTexts
    /\ fn_return = None

\* _convert normalizes the text of the converter's result.
Normalizes ==
    /\ fn_call # None
    /\ fn_call.fn = "normalize"
    /\ fn_return = None
    /\ fn_return' = Returned(Normalize(fn_call.text))
    /\ UNCHANGED fn_call
    /\ UNCHANGED OutsideFunction

\* The normalization is applied to a text it has produced.
NormalizesAgain ==
    /\ fn_call # None
    /\ fn_call.fn = "normalize"
    /\ ~fn_call.again
    /\ fn_return # None
    /\ fn_call' = [fn |-> "normalize", text |-> fn_return.value, again |-> TRUE]
    /\ fn_return' = Returned(Normalize(fn_return.value))
    /\ UNCHANGED OutsideFunction

NextNormalize == Normalizes \/ NormalizesAgain

SpecNormalize == InitNormalize /\ [][NextNormalize]_vars

\* ------------------------------------------------ StreamInfo.copy_and_update
\* The values of a StreamInfo field in the calls below.
FieldValues == {NULL, "1", "2"}

\* The instances the calls below are made on and with: mimetype and
\* extension vary, the other four fields are None.
StreamInfos == {StreamInfo(m, e) : m \in FieldValues, e \in FieldValues}

\* **kwargs: the keywords of a call, each with its value, None included.
KeywordArguments ==
    UNION {[names -> FieldValues] : names \in SUBSET {"mimetype", "extension"}}

\* {k: v for k, v in asdict(si).items() if v is not None}
NotNone(si) ==
    [k \in {f \in DOMAIN si : si[f] # NULL} |-> si[k]]

\* dict.update
Update(new_info, other) ==
    [k \in DOMAIN new_info |-> IF k \in DOMAIN other THEN other[k] ELSE new_info[k]]

\* The for loop of copy_and_update over the first n overlays.
RECURSIVE UpdateAll(_, _, _)
UpdateAll(new_info, args, n) ==
    IF n = 0 THEN new_info
    ELSE Update(UpdateAll(new_info, args, n - 1), NotNone(args[n]))

\* StreamInfo.copy_and_update(self, *args, **kwargs)
copy_and_update(self, args, kwargs) ==
    LET new_info == UpdateAll(self, args, Len(args))
    IN  IF Cardinality(DOMAIN kwargs) > 0 THEN Update(new_info, kwargs) ELSE new_info

CopyAndUpdateCalls ==
    {[fn |-> "copy_and_update", self |-> si, args |-> args, kwargs |-> kwargs] :
        si \in StreamInfos, args \in SeqsUpTo(StreamInfos, MaxOverlays),
        kwargs \in KeywordArguments}

InitCopyAndUpdate ==
    /\ Idle
    /\ fn_call \in CopyAndUpdateCalls
    /\ fn_return = None

CopyAndUpdateReturns ==
    /\ fn_call # None
    /\ fn_call.fn = "copy_and_update"
    /\ fn_return = None
    /\ fn_return' = Returned(copy_and_update(fn_call.self, fn_call.args, fn_call.kwargs))
    /\ UNCHANGED fn_call
    /\ UNCHANGED OutsideFunction

NextCopyAndUpdate == CopyAndUpdateReturns

SpecCopyAndUpdate == InitCopyAndUpdate /\ [][NextCopyAndUpdate]_vars

\* -------------------------------------------------- building the guesses
\* The entry points build a base guess from the source and the caller's
\* hints, and _get_stream_info_guesses turns it into the guesses of dispatch.
PPTX == "application/vnd.openxmlformats-officedocument.presentationml.presentation"

\* The names of local files and of archive entries.
Paths == {"README", "notes.txt", "dir/slides.pptx"}

\* os.path.splitext(path)[1]
splitext(path) ==
    CASE path = "README" -> ""
      [] path = "notes.txt" -> ".txt"
      [] path = "dir/slides.pptx" -> ".pptx"

\* os.path.basename(path)
basename(path) ==
    CASE path = "README" -> "README"
      [] path = "notes.txt" -> "notes.txt"
      [] path = "dir/slides.pptx" -> "slides.pptx"

\* mimetypes.guess_type("placeholder" + extension, strict=False)[0]
guess_type(extension) ==
    CASE extension = ".txt" -> "text/plain"
      [] extension = ".pptx" -> PPTX
      [] OTHER -> NULL

\* mimetypes.guess_all_extensions(mimetype, strict=False)
guess_all_extensions(mimetype) ==
    CASE mimetype = "text/plain" -> <<".txt">>
      [] mimetype = PPTX -> <<".pptx">>
      [] OTHER -> <<>>

\* extension.lstrip(".")
lstrip_dot(extension) ==
    CASE extension = ".txt" -> "txt"
      [] extension = ".pptx" -> "pptx"
      [] OTHER -> extension

\* MarkItDown._normalize_charset: the name codecs.lookup gives.
normalize_charset(charset) ==
    CASE charset = NULL -> NULL
      [] charset = "UTF8" -> "utf-8"
      [] OTHER -> charset

\* Python's "a or b" on optional strings: b when a is None or empty.
Or(a, b) == IF a # NULL /\ a # "" THEN a ELSE b

\* StreamInfo with all six fields.
FullStreamInfo(mimetype, extension, charset, filename, local_path, url) ==
    [mimetype |-> mimetype, extension |-> extension, charset |-> charset,
     filename |-> filename, local_path |-> local_path, url |-> url]

\* The stream_info argument of a caller: none, or some fields, none empty.
StreamInfoArguments ==
    {None,
     FullStreamInfo("text/plain", NULL, NULL, NULL, NULL, NULL),
     FullStreamInfo(NULL, ".pptx", NULL, NULL, NULL, NULL),
     FullStreamInfo(NULL, NULL, "UTF8", NULL, NULL, NULL)}

\* The deprecated file_extension and url arguments.
FileExtensionArguments == {NULL, ".txt"}

UrlArguments == {NULL, "https://example.com/a"}

\* What magika and charset_normalizer find in the content: nothing
\* ("unknown" or a status other than "ok"), or a type with its mimetype, its
\* extensions and, for text, possibly a charset.
MagikaResult(known, mime_type, extensions, charset) ==
    [known |-> known, mime_type |-> mime_type, extensions |-> extensions,
     charset |-> charset]

MagikaResults ==
    {MagikaResult(FALSE, NULL, <<>>, NULL),
     MagikaResult(TRUE, "text/plain", <<"txt">>, NULL),
     MagikaResult(TRUE, "text/plain", <<"txt">>, "utf-8"),
     MagikaResult(TRUE, PPTX, <<"pptx">>, NULL),
     MagikaResult(TRUE, "inode/x-empty", <<>>, NULL)}

\* The hints of convert_local, convert_stream and convert_response: the
\* stream_info argument, then file_extension, then url.
WithHints(base_guess, stream_info, file_extension, url) ==
    LET a == IF stream_info # None
             THEN copy_and_update(base_guess, <<stream_info>>, <<>>) ELSE base_guess
        b == IF file_extension # NULL
             THEN copy_and_update(a, <<>>, [extension |-> file_extension]) ELSE a
    IN  IF url # NULL THEN copy_and_update(b, <<>>, [url |-> url]) ELSE b

\* The base guess of convert_local.
local_base_guess(path, stream_info, file_extension, url) ==
    WithHints(FullStreamInfo(NULL, splitext(path), NULL, basename(path), path, NULL),
              stream_info, file_extension, url)

\* The base guess of convert_stream.
stream_base_guess(stream_info, file_extension, url) ==
    IF stream_info # None \/ file_extension # NULL \/ url # NULL
    THEN WithHints(IF stream_info = None
                   THEN FullStreamInfo(NULL, NULL, NULL, NULL, NULL, NULL)
                   ELSE stream_info,
                   None, file_extension, url)
    ELSE FullStreamInfo(NULL, NULL, NULL, NULL, NULL, NULL)

\* ZipConverter.convert: the StreamInfo of an archive entry, handed to
\* convert_stream.
z_file_stream_info(name) ==
    FullStreamInfo(NULL, splitext(name), NULL, basename(name), NULL, NULL)

\* The base guess enhanced from its own extension or mimetype.
enhanced_guess(base_guess) ==
    LET m == IF base_guess.mimetype = NULL /\ base_guess.extension # NULL
             THEN guess_type(base_guess.extension) ELSE NULL
        a == IF m # NULL THEN copy_and_update(base_guess, <<>>, [mimetype |-> m])
             ELSE base_guess
        e == IF base_guess.mimetype # NULL /\ base_guess.extension = NULL
             THEN guess_all_extensions(base_guess.mimetype) ELSE <<>>
    IN  IF Len(e) > 0 THEN copy_and_update(a, <<>>, [extension |-> e[1]]) ELSE a

\* A mutant of compatible: the charset is left out of the comparison.
compatible_but_for_charset(base_guess, result) ==
    /\ ~(base_guess.mimetype # NULL /\ base_guess.mimetype # result.mime_type)
    /\ ~(/\ base_guess.extension # NULL
         /\ \A k \in 1..Len(result.extensions) :
               result.extensions[k] # lstrip_dot(base_guess.extension))

\* Whether the content type found is compatible with the base guess.
compatible(base_guess, result) ==
    /\ ~(base_guess.mimetype # NULL /\ base_guess.mimetype # result.mime_type)
    /\ ~(/\ base_guess.extension # NULL
         /\ \A k \in 1..Len(result.extensions) :
               result.extensions[k] # lstrip_dot(base_guess.extension))
    /\ ~(/\ base_guess.charset # NULL
         /\ normalize_charset(base_guess.charset) # result.charset)

\* The compatible guess with the content's fields put before the caller's.
compatible_guess_content_first(base_guess, result, guessed_extension) ==
    FullStreamInfo(Or(result.mime_type, base_guess.mimetype),
                   Or(guessed_extension, base_guess.extension),
                   Or(result.charset, base_guess.charset),
                   base_guess.filename, base_guess.local_path, base_guess.url)

\* The compatible guess: the base guess, its gaps filled from the content.
compatible_guess(base_guess, result, guessed_extension) ==
    FullStreamInfo(Or(base_guess.mimetype, result.mime_type),
                   Or(base_guess.extension, guessed_extension),
                   Or(base_guess.charset, result.charset),
                   base_guess.filename, base_guess.local_path, base_guess.url)

\* MarkItDown._get_stream_info_guesses, given what the classifiers find.
get_stream_info_guesses(base_guess, result) ==
    LET guessed_extension ==
            IF Len(result.extensions) > 0
            THEN CASE result.extensions[1] = "txt" -> ".txt"
                   [] result.extensions[1] = "pptx" -> ".pptx"
            ELSE NULL
    IN  IF result.known
        THEN IF compatible(base_guess, result)
             THEN <<compatible_guess(base_guess, result, guessed_extension)>>
             ELSE <<enhanced_guess(base_guess),
                    FullStreamInfo(result.mime_type, guessed_extension, result.charset,
                                   base_guess.filename, base_guess.local_path,
                                   base_guess.url)>>
        ELSE <<enhanced_guess(base_guess)>>

\* The callers of guess extraction: convert_local on a path, convert_stream
\* on a stream, and ZipConverter on an archive entry.
GuessCalls ==
    {[fn |-> "guesses", entry |-> "convert_local", path |-> path,
      stream_info |-> si, file_extension |-> fe, url |-> url, result |-> r] :
        path \in Paths, si \in StreamInfoArguments, fe \in FileExtensionArguments,
        url \in UrlArguments, r \in MagikaResults}
    \cup
    {[fn |-> "guesses", entry |-> "convert_stream", path |-> NULL,
      stream_info |-> si, file_extension |-> fe, url |-> url, result |-> r] :
        si \in StreamInfoArguments, fe \in FileExtensionArguments,
        url \in UrlArguments, r \in MagikaResults}
    \cup
    {[fn |-> "guesses", entry |-> "ZipConverter.convert", path |-> name,
      stream_info |-> None, file_extension |-> NULL, url |-> NULL, result |-> r] :
        name \in Paths, r \in MagikaResults}

\* The base guess an entry point builds for a call.
base_guess_of(call) ==
    CASE call.entry = "convert_local" ->
            local_base_guess(call.path, call.stream_info, call.file_extension, call.url)
      [] call.entry = "convert_stream" ->
            stream_base_guess(call.stream_info, call.file_extension, call.url)
      [] call.entry = "ZipConverter.convert" ->
            stream_base_guess(z_file_stream_info(call.path), NULL, NULL)

InitGuesses ==
    /\ Idle
    /\ fn_call \in GuessCalls
    /\ fn_return = None

\* The entry point builds its base guess and calls guess extraction; _convert
\* will try the guesses returned and then StreamInfo().
BuildsGuesses ==
    /\ fn_call # None
    /\ fn_call.fn = "guesses"
    /\ fn_return = None
    /\ LET base_guess == base_guess_of(fn_call)
       IN  fn_return' =
              Returned([base_guess |-> base_guess,
                        guesses |-> get_stream_info_guesses(base_guess, fn_call.result)])
    /\ UNCHANGED fn_call
    /\ UNCHANGED OutsideFunction

NextGuesses == BuildsGuesses

SpecGuesses == InitGuesses /\ [][NextGuesses]_vars

\* ------------------------------------------------------------ parse_data_uri
\* A string is the sequence of its pieces: the separators "data:", ",", ";"
\* and "=", the word "base64", and other words and payload chunks, none of
\* which holds a separator.  None, where a string is expected, is NoString.
NoString == <<NULL>>

\* The position of the first piece of s that is sep, 0 if there is none.
RECURSIVE Find(_, _, _)
Find(s, sep, i) ==
    IF i > Len(s) THEN 0
    ELSE IF s[i] = sep THEN i
    ELSE Find(s, sep, i + 1)

\* s.split(sep)
RECURSIVE StrSplit(_, _)
StrSplit(s, sep) ==
    LET n == Find(s, sep, 1)
    IN  IF n = 0 THEN <<s>>
        ELSE <<SubSeq(s, 1, n - 1)>> \o StrSplit(SubSeq(s, n + 1, Len(s)), sep)

\* urllib.parse.unquote_to_bytes: every percent escape becomes its byte.
unquote_to_bytes(data) ==
    [k \in 1..Len(data) |-> IF data[k] = "%2C" THEN "," ELSE data[k]]

\* base64.b64decode on the payloads below: "SGk=" is the encoding of "Hi",
\* what follows the padding is dropped, and "%2C" alone is rejected.
b64decode(data) ==
    IF data = <<>> THEN Returned(<<>>)
    ELSE IF data[1] = "SGk=" THEN Returned(<<"Hi">>)
    ELSE Raised("binascii.Error")

\* A mutant of decode: the payload is percent-decoded whatever the marker.
decode_percent_only(data, is_base64) == Returned(unquote_to_bytes(data))

\* content = base64.b64decode(data) if is_base64 else unquote_to_bytes(data)
decode(data, is_base64) ==
    IF is_base64 THEN b64decode(data) ELSE Returned(unquote_to_bytes(data))

\* attributes[key] = value
SetItem(dict, key, value) ==
    [k \in DOMAIN dict \cup {key} |-> IF k = key THEN value ELSE dict[k]]

\* The loop over the parts left after the mimetype and the marker.
RECURSIVE Attributes(_, _)
Attributes(parts, n) ==
    IF n = 0 THEN <<>>
    ELSE LET before == Attributes(parts, n - 1)
             part   == parts[n]
             eq     == Find(part, "=", 1)
         IN  IF eq > 0
             THEN SetItem(before, SubSeq(part, 1, eq - 1), SubSeq(part, eq + 1, Len(part)))
             ELSE IF Len(part) > 0 THEN SetItem(before, part, <<>>)
             ELSE before

\* parse_data_uri(uri)
parse_data_uri(uri) ==
    IF ~(uri # <<>> /\ uri[1] = "data:") THEN Raised("ValueError")
    ELSE LET comma == Find(uri, ",", 1)
         IN  IF comma = 0 THEN Raised("ValueError")
             ELSE LET header    == SubSeq(uri, 1, comma - 1)
                      data      == SubSeq(uri, comma + 1, Len(uri))
                      meta      == Tail(header)
                      split     == StrSplit(meta, ";")
                      is_base64 == split[Len(split)] = <<"base64">>
                      parts     == IF is_base64 THEN Front(split) ELSE split
                      has_mime  == Len(parts) > 0 /\ Len(parts[1]) > 0
                      mime_type == IF has_mime THEN parts[1] ELSE NoString
                      rest      == IF has_mime THEN Tail(parts) ELSE parts
                      content   == decode(data, is_base64)
                  IN  IF content = Raised("binascii.Error") THEN content
                      ELSE Returned([mime_type |-> mime_type,
                                     attributes |-> Attributes(rest, Len(rest)),
                                     content |-> content.value])

\* The pieces of a data URI of the form
\* data:[mimetype][;key=value]*[;base64],payload
MimeTypes == {NoString, <<"text/plain">>}

Params ==
    {[key |-> k, value |-> v] :
        k \in {<<"charset">>, <<"name">>}, v \in {<<"utf-8">>, <<"a", "=", "b">>}}

Payloads == {<<>>, <<"SGk=">>, <<"%2C">>, <<"SGk=", "%2C">>}

DataUriForms ==
    [mime_type : MimeTypes, params : SeqsUpTo(Params, MaxParams),
     is_base64 : BOOLEAN, payload : Payloads]

\* ";key=value" for each parameter.
RECURSIVE ParamText(_)
ParamText(params) ==
    IF params = <<>> THEN <<>>
    ELSE <<";">> \o params[1].key \o <<"=">> \o params[1].value \o ParamText(Tail(params))

\* The header of the URI of a form, "data:" included.
HeaderText(form) ==
    <<"data:">>
    \o (IF form.mime_type = NoString THEN <<>> ELSE form.mime_type)
    \o ParamText(form.params)
    \o (IF form.is_base64 THEN <<";", "base64">> ELSE <<>>)

\* The calls: on the URI of a form, on it without its "data:", and on it
\* without the comma and the payload.
DataUriCalls ==
    {[fn |-> "parse_data_uri", uri |-> HeaderText(f) \o <<",">> \o f.payload,
      form |-> f, malformed |-> "no"] : f \in DataUriForms}
    \cup
    {[fn |-> "parse_data_uri", uri |-> Tail(HeaderText(f)) \o <<",">> \o f.payload,
      form |-> f, malformed |-> "no data:"] : f \in DataUriForms}
    \cup
    {[fn |-> "parse_data_uri", uri |-> HeaderText(f),
      form |-> f, malformed |-> "no comma"] : f \in DataUriForms}

InitParseDataUri ==
    /\ Idle
    /\ fn_call \in DataUriCalls
    /\ fn_return = None

ParseDataUriReturns ==
    /\ fn_call # None
    /\ fn_call.fn = "parse_data_uri"
    /\ fn_return = None
    /\ fn_return' = parse_data_uri(fn_call.uri)
    /\ UNCHANGED fn_call
    /\ UNCHANGED OutsideFunction

NextParseDataUri == ParseDataUriReturns

SpecParseDataUri == InitParseDataUri /\ [][NextParseDataUri]_vars

\* ------------------------------------------------- POST /api/v1/convert
\* markitdown_api.app: the upload endpoint.  A filename is the sequence of
\* its pieces: words and dots.
SUPPORTED_EXTENSIONS ==
    {"pdf", "docx", "pptx", "xlsx", "xls", "html", "htm", "csv", "json", "xml",
     "zip", "epub", "txt", "md", "msg", "jpg", "jpeg", "png", "gif", "bmp",
     "mp3", "wav", "m4a", "ipynb"}

Filenames == SeqsUpTo({"doc", ".", "txt", "TXT", "exe"}, MaxName)

\* str.lower of a piece.
lower(piece) == IF piece = "TXT" THEN "txt" ELSE piece

\* The position of the last piece of s that is sep, 0 if there is none.
RECURSIVE FindLast(_, _, _)
FindLast(s, sep, i) ==
    IF i = 0 THEN 0
    ELSE IF s[i] = sep THEN i
    ELSE FindLast(s, sep, i - 1)

\* filename.rsplit('.', 1)[1], for a filename with a dot.
rsplit_dot(filename) ==
    SubSeq(filename, FindLast(filename, ".", Len(filename)) + 1, Len(filename))

\* A mutant of allowed_file: any filename with a dot is let through.
allowed_file_any_extension(filename) == Find(filename, ".", 1) > 0

\* _allowed_file(filename)
allowed_file(filename) ==
    /\ Find(filename, ".", 1) > 0
    /\ LET extension == rsplit_dot(filename)
       IN  /\ Len(extension) = 1
           /\ lower(extension[1]) \in SUPPORTED_EXTENSIONS

\* json_response(ErrorResponse(error=...), status): the body carries the
\* error; converted tells whether md_instance.convert was called.
Response(status, error, converted) ==
    [status |-> status, error |-> error, converted |-> converted]

\* convert_file(): the three checks, then the conversion, which returns a
\* result or raises.
convert_file(request, conversion) ==
    IF ~request.has_file THEN Response(400, "no file provided", FALSE)
    ELSE IF request.filename = <<>> THEN Response(400, "no file selected", FALSE)
    ELSE IF ~allowed_file(request.filename)
         THEN Response(400, "unsupported file type", FALSE)
    ELSE IF conversion = "result" THEN Response(200, NULL, TRUE)
    ELSE Response(500, conversion, TRUE)

\* md_instance.convert(file.stream, stream_info={'filename': ...,
\* 'mimetype': ...}): the stream_info handed over is a dict, which
\* convert_stream takes as the base guess, and base_guess.copy_and_update()
\* in _get_stream_info_guesses raises AttributeError.
ConversionOutcomes == {"AttributeError"}

\* request.files: without a 'file' part, or with one and its filename.
UploadRequests ==
    {[fn |-> "convert_file", has_file |-> FALSE, filename |-> <<>>]}
    \cup {[fn |-> "convert_file", has_file |-> TRUE, filename |-> f] : f \in Filenames}

InitConvertFile ==
    /\ Idle
    /\ fn_call \in UploadRequests
    /\ fn_return = None

ConvertFileResponds ==
    /\ fn_call # None
    /\ fn_call.fn = "convert_file"
    /\ fn_return = None
    /\ \E conversion \in ConversionOutcomes :
          fn_return' = Returned(convert_file(fn_call, conversion))
    /\ UNCHANGED fn_call
    /\ UNCHANGED OutsideFunction

NextConvertFile == ConvertFileResponds

SpecConvertFile == InitConvertFile /\ [][NextConvertFile]_vars

\* ------------------------------------------------- reading the call history
\* A dispatch has been entered (an entry point that raised never entered one).
Dispatching ==
    \/ pc \in {"accepts", "convert", "exhausted"}
    \/ pc = "done" /\ failed_call = None

\* The three outcomes of the dispatch taxonomy.
DispatchOutcomes == {"result", "UnsupportedFormatException", "FileConversionException"}

\* The dispatch was aborted by an accepts call that broke its contract: it
\* raised something other than NotImplementedError, or moved the stream.
Aborted == outcome \in {"AcceptsError", "AssertionError"}

IsAccepts(c) == c.op = "accepts"
IsConvert(c) == c.op = "convert"
IsRaised(c) == c.op = "convert" /\ c.out \in ConvertErrors
IsAccepted(c) == c.op = "accepts" /\ c.out = "True"
AcceptsCalls == SelectSeq(calls, IsAccepts)
ConvertCalls == SelectSeq(calls, IsConvert)
RaisedCalls == SelectSeq(calls, IsRaised)
AcceptedCalls == SelectSeq(calls, IsAccepted)

\* The (trial guess, converter) pairs in the order of dispatch: guess by
\* guess, and within a guess the sorted copy of the registry.
NumPairs == Len(trial_guesses) * Len(sorted_registrations)
PairGuess(k) == ((k - 1) \div Len(sorted_registrations)) + 1
PairConverter(k) ==
    sorted_registrations[((k - 1) % Len(sorted_registrations)) + 1].converter

\* The priority a converter was registered with.
PriorityOf(converter) ==
    LET i == CHOOSE j \in 1..Len(converters) : converters[j].converter = converter
    IN  converters[i].priority

\* The k-th accepts call is made on the k-th pair, and a convert call comes
\* right after the accepts call of its pair, which returned True.
InDispatchOrder ==
    LET tried == AcceptsCalls
    IN  /\ Len(tried) <= NumPairs
        /\ \A k \in 1..Len(tried) :
              /\ tried[k].guess = PairGuess(k)
              /\ tried[k].converter = PairConverter(k)
        /\ \A i \in 1..Len(calls) :
              IsConvert(calls[i]) =>
                 /\ i > 1
                 /\ calls[i - 1] = [calls[i] EXCEPT !.op = "accepts", !.out = "True"]

\* ------------------------------------------------------------------ claims

\* C1: _convert returns the result of the first (trial guess, converter)
\* pair, in guess order and then sorted-registry order, whose accepts
\* returned True and whose convert returned a result, and once a convert has
\* returned a result no accepts and no convert is called any more.
C1_FirstSuccessWins ==
    /\ InDispatchOrder
    /\ \A i \in 1..Len(calls) :
          calls[i].out = "result" =>
             /\ i = Len(calls)
             /\ pc = "done"
             /\ outcome = "result"
             /\ res = [converter |-> calls[i].converter, guess |-> calls[i].guess]
    /\ outcome = "result" =>
          /\ calls # <<>>
          /\ calls[Len(calls)].op = "convert"
          /\ calls[Len(calls)].out = "result"

\* C1 witness: a result returned by a pair of the second trial guess after
\* a failed attempt, with pairs of the trial list left untried.
C1_Witness ==
    /\ outcome = "result"
    /\ res.guess = 2
    /\ failed_attempts # <<>>
    /\ Len(AcceptsCalls) < NumPairs

C3_FallbackGuess ==
    Dispatching =>
       /\ trial_guesses = stream_info_guesses \o <<EmptyStreamInfo>>
       /\ (pc = "done" /\ ~Aborted) =>
             (outcome = "result" \/ Len(AcceptsCalls) = NumPairs)
       /\ (pc \in {"exhausted", "done"} /\ ~Aborted) =>
             \A i \in 1..Len(calls) :
                (IsAccepts(calls[i]) /\ calls[i].out = "True") =>
                   /\ i < Len(calls)
                   /\ IsConvert(calls[i + 1])
                   /\ calls[i + 1].guess = calls[i].guess
                   /\ calls[i + 1].converter = calls[i].converter

\* Converter c accepted the fallback guess and no other trial guess.
AcceptsFallbackOnly(c) ==
    \A k \in 1..Len(AcceptsCalls) :
       AcceptsCalls[k].converter = c =>
          (AcceptsCalls[k].out = "True" <=> AcceptsCalls[k].guess = Len(trial_guesses))

\* C3 witness: a converter that refused the supplied guess accepted the
\* fallback guess, and its convert was invoked.
C3_Witness ==
    /\ Len(stream_info_guesses) = 1
    /\ pc = "done"
    /\ \E i \in 1..Len(calls) :
          /\ IsConvert(calls[i])
          /\ calls[i].guess = Len(trial_guesses)
          /\ trial_guesses[calls[i].guess] = EmptyStreamInfo
          /\ AcceptsFallbackOnly(calls[i].converter)
          /\ \E k \in 1..Len(AcceptsCalls) :
                AcceptsCalls[k].converter = calls[i].converter /\ AcceptsCalls[k].guess = 1

\* C4: when every accepts call of the dispatch has been made and none
\* returned True, the empty registry included, dispatch raises
\* UnsupportedFormatException (and not FileConversionException).
C4_NothingAccepts ==
    (pc = "done" /\ failed_call = None /\ ~Aborted /\ Accepted = {}) =>
       /\ Len(AcceptsCalls) = NumPairs
       /\ outcome = "UnsupportedFormatException"
       /\ attempts = <<>>

\* C4 witness: three converters refused both trial guesses.
C4_Witness ==
    /\ pc = "done"
    /\ outcome = "UnsupportedFormatException"
    /\ Len(sorted_registrations) = 3
    /\ Len(calls) = 6
    /\ Accepted = {}

\* Exactly one converter accepted, every one of its convert calls raised,
\* and the dispatch ran to its end.
OnlyAccepterFailed ==
    /\ pc = "done"
    /\ failed_call = None
    /\ ~Aborted
    /\ AcceptedCalls # <<>>
    /\ \A k \in 1..Len(AcceptedCalls) :
          AcceptedCalls[k].converter = AcceptedCalls[1].converter
    /\ Len(RaisedCalls) = Len(ConvertCalls)

\* C5 as stated: when exactly one converter accepts (under one or more of
\* the trial guesses) and its convert fails, dispatch raises
\* FileConversionException with exactly one FailedConversionAttempt, which
\* references that converter.
C5_ExactlyOneAttempt ==
    OnlyAccepterFailed =>
       /\ outcome = "FileConversionException"
       /\ Len(attempts) = 1
       /\ attempts[1].converter = AcceptedCalls[1].converter

\* C5 amended: when exactly one converter accepts and its convert raises,
\* dispatch raises FileConversionException whose attempts list has one
\* FailedConversionAttempt for each trial guess under which the converter
\* accepted (one only when it accepted under a single trial guess), each
\* referencing that converter.
C5_OneAttemptPerAcceptedGuess ==
    OnlyAccepterFailed =>
       /\ outcome = "FileConversionException"
       /\ Len(attempts) = Len(AcceptedCalls)
       /\ \A k \in 1..Len(attempts) :
             /\ attempts[k].converter = AcceptedCalls[1].converter
             /\ attempts[k].exc_info.guess = AcceptedCalls[k].guess
       /\ Len(AcceptedCalls) = 1 => Len(attempts) = 1

\* C5 witness: of three converters one accepted, under the supplied guess
\* and under the fallback guess, and failed both times.
C5_Witness ==
    /\ OnlyAccepterFailed
    /\ Len(sorted_registrations) = 3
    /\ Len(AcceptedCalls) = 2
    /\ Len(attempts) = 2

\* The attempt a raised convert call is recorded as.
AttemptOf(c) == FailedConversionAttempt(c.converter, ExcInfo(c.out, c.converter, c.guess))

\* Position of a converter in the sorted copy of the registry.
SortedIndex(converter) ==
    CHOOSE i \in 1..Len(sorted_registrations) : sorted_registrations[i].converter = converter

\* C6: when every pair is exhausted without a result and at least one convert
\* raised, dispatch raises FileConversionException, and its attempts list
\* holds, in dispatch order (guess order, then sorted-registry order), one
\* FailedConversionAttempt for each pair whose convert raised, with that
\* converter and the captured exception info, and nothing else.
C6_AttemptsInDispatchOrder ==
    /\ (pc = "done" /\ failed_call = None /\ ~Aborted /\ outcome # "result"
          /\ RaisedCalls # <<>>) => outcome = "FileConversionException"
    /\ outcome = "FileConversionException" =>
          /\ Len(AcceptsCalls) = NumPairs
          /\ RaisedCalls # <<>>
          /\ attempts = [k \in 1..Len(RaisedCalls) |-> AttemptOf(RaisedCalls[k])]
          /\ \A i, j \in 1..Len(attempts) :
                i < j =>
                   LET a == attempts[i]
                       b == attempts[j]
                   IN  \/ a.exc_info.guess < b.exc_info.guess
                       \/ /\ a.exc_info.guess = b.exc_info.guess
                          /\ SortedIndex(a.converter) < SortedIndex(b.converter)

\* C6 witness: two convert calls raised, under different trial guesses and
\* by different converters, and both are reported.
C6_Witness ==
    /\ outcome = "FileConversionException"
    /\ Len(attempts) = 2
    /\ attempts[1].exc_info.guess # attempts[2].exc_info.guess
    /\ attempts[1].converter # attempts[2].converter

\* C7: UnsupportedFormatException is raised only when no accepts call of the
\* dispatch returned True, that is only when no convert was ever attempted.
C7_UnsupportedOnlyIfNothingAccepted ==
    outcome = "UnsupportedFormatException" =>
       /\ Accepted = {}
       /\ ConvertCalls = <<>>

EntryErrors == {"TypeError", "ValueError", "OSError", "HTTPError"}

C9_ConvertErrorsCaptured ==
    /\ outcome \notin ConvertErrors
    /\ pc # "done" =>
          failed_attempts = [k \in 1..Len(RaisedCalls) |-> AttemptOf(RaisedCalls[k])]
    /\ \A i \in 1..Len(calls) :
          IsRaised(calls[i]) =>
             IF i < Len(calls)
             THEN /\ IsAccepts(calls[i + 1])
                  /\ \/ /\ calls[i + 1].guess = calls[i].guess
                        /\ SortedIndex(calls[i + 1].converter) = SortedIndex(calls[i].converter) + 1
                     \/ /\ calls[i + 1].guess = calls[i].guess + 1
                        /\ SortedIndex(calls[i].converter) = Len(sorted_registrations)
                        /\ SortedIndex(calls[i + 1].converter) = 1
             ELSE \/ pc = "accepts"
                  \/ pc = "exhausted"
                  \/ pc = "done" /\ outcome = "FileConversionException"
    /\ outcome = "result" => attempts = <<>>
    /\ outcome = "FileConversionException" =>
          \A i \in 1..Len(calls) : calls[i].out # "result"

\* C9 witness: a convert call raised MissingDependencyException, a later
\* converter returned a result, and the caller got the result.
C9_Witness ==
    /\ pc = "done"
    /\ outcome = "result"
    /\ Len(RaisedCalls) = 1
    /\ RaisedCalls[1].out = "MissingDependencyException"
    /\ res.converter # RaisedCalls[1].converter
    /\ failed_attempts = <<AttemptOf(RaisedCalls[1])>>

\* C10: after every convert call, whether it returned or raised, the stream
\* position is the restore point recorded at dispatch entry; so it is at
\* the start of every accepts call, and when dispatch returns a result or
\* raises UnsupportedFormatException or FileConversionException.
C10_PositionRestored ==
    /\ (calls # <<>> /\ IsConvert(calls[Len(calls)])) => pos = cur_pos
    /\ pc = "accepts" => pos = cur_pos
    /\ (pc = "done" /\ outcome \in DispatchOutcomes) => pos = cur_pos

\* C10 witness: a dispatch entered with the stream at a position other than
\* 0 ended in FileConversionException with the stream at that position.
C10_Witness ==
    /\ pc = "done"
    /\ outcome = "FileConversionException"
    /\ cur_pos > 0
    /\ pos = cur_pos
    /\ Len(ConvertCalls) >= 2

\* An accepts call of the outermost dispatch that moved the stream is the
\* last call made: its convert is not invoked, nothing is recorded for it,
\* and the conversion has ended in the AssertionError.
AcceptsMoveIsFatal ==
    \A i \in 1..Len(calls) :
       (calls[i].op = "accepts" /\ calls[i].out = "moved") =>
          /\ i = Len(calls)
          /\ pc = "done"
          /\ outcome = "AssertionError"
          /\ \A k \in 1..Len(failed_attempts) :
                \/ failed_attempts[k].converter # calls[i].converter
                \/ failed_attempts[k].exc_info.guess # calls[i].guess

\* The same for an accepts call of a nested dispatch that moved the stream
\* of the archive entry.
NestedAcceptsMoveIsFatal ==
    nested.outcome = "AssertionError" =>
       /\ pc = "done"
       /\ outcome = "AssertionError"
       /\ \A k \in 1..Len(failed_attempts) :
             failed_attempts[k].exc_info.type # "AssertionError"

\* C11: when accepts returns (or raises NotImplementedError) with the stream
\* position different from the restore point, the conversion fails with an
\* assertion failure before that converter's convert is invoked; the
\* violation is never recorded as a FailedConversionAttempt and dispatch
\* never goes on with other converters, also when the violation is detected
\* in a nested dispatch started by a container converter.
C11_AssertionIsFatal ==
    /\ AcceptsMoveIsFatal
    /\ NestedAcceptsMoveIsFatal

\* Guess extraction has left the stream where it was at entry.
PositionAsAtEntry == file_stream.pos = guessing.cur_pos

\* _get_stream_info_guesses leaves the stream where it found it, however it
\* ends.
GetGuessesRestores ==
    (guessing.fn = "_get_stream_info_guesses" /\ guessing.pc \in {"returned", "raised"}) =>
       PositionAsAtEntry

\* _guess_stream_info_from_stream leaves the stream where it found it when
\* it returns.
GuessFromStreamRestoresOnReturn ==
    (guessing.fn = "_guess_stream_info_from_stream" /\ guessing.pc = "returned") =>
       PositionAsAtEntry

\* C12: _get_stream_info_guesses and _guess_stream_info_from_stream leave the
\* read position of the stream equal to its position at entry on every exit
\* path: after the charset read-ahead, after the leading-whitespace retry,
\* and when a classifier raises.
C12_GuessingRestoresPosition ==
    guessing.pc \in {"returned", "raised"} => PositionAsAtEntry

\* The normalization has been applied to a text it produced itself.
Renormalized ==
    /\ fn_call # None
    /\ fn_call.fn = "normalize"
    /\ fn_call.again

\* C13: re-applying the result normalization of dispatch (split on LF or
\* CRLF, right-trim each line, rejoin with LF, collapse runs of 3 or more
\* newlines to 2) to a text it has produced returns that text unchanged.
C13_NormalizeIdempotent ==
    Renormalized => fn_return.value = fn_call.text

\* The normalization was applied again to a text of several lines that
\* still holds a carriage return.
C13_Witness ==
    /\ Renormalized
    /\ fn_call.text # <<>>
    /\ \E i \in 1..Len(fn_call.text) : fn_call.text[i] = "\n"
    /\ \E i \in 1..Len(fn_call.text) : fn_call.text[i] = "\r"

\* The lines of a text: what stands between its line feeds.
RECURSIVE LinesOf(_)
LinesOf(text) ==
    IF \A i \in 1..Len(text) : text[i] # "\n" THEN <<text>>
    ELSE LET n == CHOOSE i \in 1..Len(text) :
                     text[i] = "\n" /\ \A j \in 1..(i - 1) : text[j] # "\n"
         IN  <<SubSeq(text, 1, n - 1)>> \o LinesOf(SubSeq(text, n + 1, Len(text)))

IsNoWhitespace(c) == c \notin Whitespace

EndsWithWhitespace(line) == line # <<>> /\ line[Len(line)] \in Whitespace

\* The content of the lines of a text: of every line that has any, its
\* characters that are no whitespace.
Content(text) ==
    LET lines    == LinesOf(text)
        stripped == [k \in 1..Len(lines) |-> SelectSeq(lines[k], IsNoWhitespace)]
        HasAny(line) == line # <<>>
    IN  SelectSeq(stripped, HasAny)

\* The runs of a text: each longest stretch of one character, with its length.
RECURSIVE RunsOf(_)
RunsOf(text) ==
    IF text = <<>> THEN <<>>
    ELSE LET n == CHOOSE i \in 1..Len(text) :
                     /\ \A j \in 1..i : text[j] = text[1]
                     /\ i = Len(text) \/ text[i + 1] # text[1]
         IN  <<[char |-> text[1], length |-> n]>>
             \o RunsOf(SubSeq(text, n + 1, Len(text)))

\* A run of 3 or more line feeds becomes a run of two; every other run stays.
CollapsedRun(run) ==
    IF run.char = "\n" /\ run.length >= 3 THEN [run EXCEPT !.length = 2] ELSE run

\* No run of 3 or more line feeds.
NoLongRun(text) ==
    \A i \in 1..Len(text) : NewlinesAt(text, i) < 3

\* _convert has normalized the text of a converter.
Normalized ==
    /\ fn_call # None
    /\ fn_call.fn = "normalize"
    /\ fn_return # None

\* C14: in every result returned by dispatch no line of the markdown ends
\* with a whitespace character and the text has no run of three or more
\* newlines; every run of 3 or more newlines left after right-trimming the
\* lines of the converter's output is replaced by exactly two, and the
\* non-whitespace content of each line is unchanged.
C14_NormalizedResult ==
    Normalized =>
       LET text    == fn_call.text
           result  == fn_return.value
           lines   == LinesOf(result)
           trimmed == RunsOf(TrimLines(text))
       IN  /\ \A k \in 1..Len(lines) : ~EndsWithWhitespace(lines[k])
           /\ NoLongRun(result)
           /\ RunsOf(result) = [k \in 1..Len(trimmed) |-> CollapsedRun(trimmed[k])]
           /\ Content(result) = Content(text)

\* A converter's text with trailing whitespace on a line and, once the lines
\* are trimmed, a run of 3 or more newlines has been normalized.
C14_Witness ==
    /\ Normalized
    /\ ~fn_call.again
    /\ \E k \in 1..Len(LinesOf(fn_call.text)) : EndsWithWhitespace(LinesOf(fn_call.text)[k])
    /\ NoLongRun(fn_call.text)
    /\ ~NoLongRun(TrimLines(fn_call.text))
    /\ Content(fn_call.text) # <<>>

\* copy_and_update has returned.
Copied ==
    /\ fn_call # None
    /\ fn_call.fn = "copy_and_update"
    /\ fn_return # None

\* The values a call supplies for a field, in the order of the claim: the
\* receiver's, those of the overlays from left to right, the keyword's.
Supplied(call, field) ==
    <<call.self[field]>>
    \o [k \in 1..Len(call.args) |-> call.args[k][field]]
    \o (IF field \in DOMAIN call.kwargs THEN <<call.kwargs[field]>> ELSE <<>>)

IsNotNull(v) == v # NULL

\* The last value of a sequence that is not None; None if there is none.
LastNotNull(values) ==
    LET given == SelectSeq(values, IsNotNull)
    IN  IF given = <<>> THEN NULL ELSE given[Len(given)]

\* No keyword of the call is None.
NoNoneKeyword ==
    \A k \in DOMAIN fn_call.kwargs : fn_call.kwargs[k] # NULL

\* With keywords that are not None, every field of the copy holds the last
\* value supplied for it that is not None.
CopyHoldsLastNotNullOfGivenKeywords ==
    (Copied /\ NoNoneKeyword) =>
       \A field \in DOMAIN fn_call.self :
          fn_return.value[field] = LastNotNull(Supplied(fn_call, field))

\* C15: StreamInfo.copy_and_update(overlays..., **keywords) returns a
\* StreamInfo in which each field holds the last non-null value among the
\* receiver, the overlays from left to right and then the keywords; a field
\* for which no overlay and no keyword supplies a non-null value keeps the
\* receiver's value.
C15_CopyHoldsLastNotNull ==
    Copied =>
       \A field \in DOMAIN fn_call.self :
          fn_return.value[field] = LastNotNull(Supplied(fn_call, field))

\* An entry point has built its guesses.
GuessesBuilt ==
    /\ fn_call # None
    /\ fn_call.fn = "guesses"
    /\ fn_return # None

\* C16: every StreamInfo that the entry points build and that dispatch
\* passes to a converter's accepts or convert has each field either null or
\* a non-empty string; no field is the empty string, also for a local path
\* or an archive entry whose name has no extension.
C16_NoEmptyStringField ==
    GuessesBuilt =>
       \A k \in 1..Len(fn_return.value.guesses) :
          \A field \in DOMAIN fn_return.value.guesses[k] :
             fn_return.value.guesses[k][field] # ""

\* For names that have an extension, no guess has an empty field.
NoEmptyStringFieldWithExtension ==
    (GuessesBuilt /\ (fn_call.path = NULL \/ splitext(fn_call.path) # "")) =>
       \A k \in 1..Len(fn_return.value.guesses) :
          \A field \in DOMAIN fn_return.value.guesses[k] :
             fn_return.value.guesses[k][field] # ""

\* C17: in the first guess returned by _get_stream_info_guesses every
\* non-null field of the base guess appears unchanged; content sniffing
\* only fills fields the base guess leaves null.
C17_BaseGuessTakesPrecedence ==
    GuessesBuilt =>
       LET base_guess == fn_return.value.base_guess
           first      == fn_return.value.guesses[1]
       IN  /\ Len(fn_return.value.guesses) >= 1
           /\ \A field \in DOMAIN base_guess :
                 base_guess[field] # NULL => first[field] = base_guess[field]

\* The content agrees with what the caller supplied, spelled differently
\* (charset UTF8 against utf-8), and fills the mimetype the caller left out.
C17_Witness ==
    /\ GuessesBuilt
    /\ Len(fn_return.value.guesses) = 1
    /\ fn_call.result.known
    /\ fn_return.value.base_guess.charset = "UTF8"
    /\ fn_call.result.charset = "utf-8"
    /\ fn_return.value.base_guess.mimetype = NULL
    /\ fn_return.value.guesses[1].mimetype = "text/plain"

\* The converters of a list of failed attempts, in order.
FailedConverters(failed) == [k \in 1..Len(failed) |-> failed[k].converter]

\* The second _convert call on the stream is over.
SecondRunOver ==
    /\ first_run # None
    /\ pc = "done"

\* C18: dispatch is deterministic and leaves the stream reusable: running
\* _convert twice on the same stream (same content and start position) with
\* the same guesses, the same registry and deterministic converters gives
\* the same outcome both times: the same winning converter and text, or the
\* same exception class with the same sequence of failed converters.
C18_SameOutcomeTwice ==
    /\ SecondRunOver =>
          /\ outcome = first_run.outcome
          /\ res = first_run.res
          /\ FailedConverters(failed_attempts) = FailedConverters(first_run.failed_attempts)
          /\ calls = first_run.calls
    /\ (first_run # None /\ first_run.outcome \in DispatchOutcomes) =>
          first_run.left_at = first_run.cur_pos

\* Both calls ended in a result after the convert of another converter had
\* failed, with the stream not at its beginning.
C18_Witness ==
    /\ SecondRunOver
    /\ outcome = "result"
    /\ Len(failed_attempts) >= 1
    /\ Len(first_run.failed_attempts) >= 1
    /\ cur_pos > 0

\* parse_data_uri has returned or raised.
Parsed ==
    /\ fn_call # None
    /\ fn_call.fn = "parse_data_uri"
    /\ fn_return # None

\* The keys of the parameters of a form.
KeysOf(form) == {form.params[k].key : k \in 1..Len(form.params)}

\* C19: parse_data_uri on data:[mimetype][;key=value]*[;base64],payload
\* returns the mimetype, or None when it is absent; an attribute map of
\* exactly the key=value parameters, the base64 marker not among them; and
\* the payload base64-decoded when the marker is present and
\* percent-decoded otherwise.  It raises ValueError when the input does not
\* start with data: or has no comma.
C19_ParseDataUri ==
    Parsed =>
       LET form == fn_call.form
           decoded == IF form.is_base64 THEN b64decode(form.payload)
                      ELSE Returned(unquote_to_bytes(form.payload))
       IN  /\ fn_call.malformed # "no" => fn_return = Raised("ValueError")
           /\ (fn_call.malformed = "no" /\ decoded # Raised("binascii.Error")) =>
                 /\ "value" \in DOMAIN fn_return
                 /\ fn_return.value.mime_type = form.mime_type
                 /\ DOMAIN fn_return.value.attributes = KeysOf(form)
                 /\ \A key \in KeysOf(form) :
                       \E k \in 1..Len(form.params) :
                          /\ form.params[k].key = key
                          /\ form.params[k].value = fn_return.value.attributes[key]
                 /\ <<"base64">> \notin DOMAIN fn_return.value.attributes
                 /\ fn_return.value.content = decoded.value

\* A URI without mimetype, with two parameters and the base64 marker, has
\* been parsed.
C19_Witness ==
    /\ Parsed
    /\ fn_call.malformed = "no"
    /\ fn_call.form.mime_type = NoString
    /\ fn_call.form.is_base64
    /\ Len(fn_call.form.params) = 2
    /\ fn_call.form.params[1].key # fn_call.form.params[2].key
    /\ fn_call.form.payload = <<"SGk=", "%2C">>
    /\ "value" \in DOMAIN fn_return
    /\ fn_return.value.content = <<"Hi">>

\* The endpoint has answered an upload request.
Answered ==
    /\ fn_call # None
    /\ fn_call.fn = "convert_file"
    /\ fn_return # None

\* The filename ends in a dot and one word that is, letter case aside, a
\* supported extension.
HasSupportedExtension(filename) ==
    /\ Len(filename) >= 2
    /\ filename[Len(filename) - 1] = "."
    /\ \E e \in SUPPORTED_EXTENSIONS :
          \/ filename[Len(filename)] = e
          \/ e = "txt" /\ filename[Len(filename)] = "TXT"

\* C20: POST /api/v1/convert answers 400 with an error body, and invokes no
\* conversion, when the request has no 'file' part, when the uploaded
\* filename is empty, or when the extension of the filename is not in
\* SUPPORTED_EXTENSIONS; the three checks are made in that order.
C20_UploadRejected ==
    Answered =>
       LET response == fn_return.value
       IN  /\ ~fn_call.has_file =>
                response = Response(400, "no file provided", FALSE)
           /\ (fn_call.has_file /\ fn_call.filename = <<>>) =>
                response = Response(400, "no file selected", FALSE)
           /\ (fn_call.has_file /\ fn_call.filename # <<>>
                 /\ ~HasSupportedExtension(fn_call.filename)) =>
                response = Response(400, "unsupported file type", FALSE)

\* An upload whose name ends in .exe has been rejected.
C20_Witness ==
    /\ Answered
    /\ fn_call.has_file
    /\ Len(fn_call.filename) = 3
    /\ fn_call.filename[2] = "."
    /\ fn_call.filename[3] = "exe"
    /\ fn_return.value.status = 400

\* C21: POST /api/v1/convert with an uploaded file whose name has a
\* supported extension, and whose content a registered converter can
\* convert, answers 200 with success and the converted markdown, not an
\* error response.
C21_SupportedUploadConverted ==
    (Answered /\ fn_call.has_file /\ HasSupportedExtension(fn_call.filename)) =>
       /\ fn_return.value.status = 200
       /\ fn_return.value.error = NULL
       /\ fn_return.value.converted

IsNotImplemented(c) == c.op = "accepts" /\ c.out = "NotImplementedError"

\* C22: a converter whose accepts raises NotImplementedError is treated as
\* not accepting: its convert is not invoked for that guess, no
\* FailedConversionAttempt is recorded for it, and dispatch continues with
\* the next converter; a registry holding only such converters ends in
\* UnsupportedFormatException.
C22_NotImplementedIsNotAccepting ==
    /\ \A i \in 1..Len(calls) :
          IsNotImplemented(calls[i]) =>
             /\ \A k \in 1..Len(calls) :
                   IsConvert(calls[k]) =>
                      \/ calls[k].converter # calls[i].converter
                      \/ calls[k].guess # calls[i].guess
             /\ \A k \in 1..Len(failed_attempts) :
                   \/ failed_attempts[k].converter # calls[i].converter
                   \/ failed_attempts[k].exc_info.guess # calls[i].guess
             /\ i < Len(calls) => IsAccepts(calls[i + 1])
             /\ i = Len(calls) => pc \in {"accepts", "exhausted", "done"}
    /\ (/\ pc = "done"
        /\ failed_call = None
        /\ sorted_registrations # <<>>
        /\ \A i \in 1..Len(calls) : IsNotImplemented(calls[i])) =>
          /\ outcome = "UnsupportedFormatException"
          /\ Len(calls) = Len(sorted_registrations) * Len(trial_guesses)

\* A registry of three converters none of which implements accepts was
\* dispatched over a supplied guess and the fallback guess, and the
\* dispatch ended in UnsupportedFormatException.
C22_Witness ==
    /\ pc = "done"
    /\ outcome = "UnsupportedFormatException"
    /\ Len(sorted_registrations) = 3
    /\ Len(trial_guesses) = 2
    /\ Len(calls) = 6
    /\ \A i \in 1..Len(calls) : IsNotImplemented(calls[i])

\* The extension of a sniffed type with its leading dot.
Dotted(extensions) ==
    CASE extensions = <<>> -> NULL
      [] extensions[1] = "txt" -> ".txt"
      [] extensions[1] = "pptx" -> ".pptx"

\* The fields on which the sniffed type conflicts with the base guess: the
\* base guess has the field and the sniffed type does not agree with it.
ConflictsOn(base_guess, result) ==
    {field \in {"mimetype", "extension", "charset"} :
        /\ base_guess[field] # NULL
        /\ CASE field = "mimetype" -> result.mime_type # base_guess.mimetype
             [] field = "extension" ->
                   base_guess.extension \notin
                      {Dotted(<<result.extensions[k]>>) : k \in 1..Len(result.extensions)}
             [] field = "charset" ->
                   result.charset # normalize_charset(base_guess.charset)}

\* The raw sniffed guess: the type found in the content, with the names the
\* base guess carries.
Sniffed(base_guess, result) ==
    [mimetype |-> result.mime_type, extension |-> Dotted(result.extensions),
     charset |-> result.charset, filename |-> base_guess.filename,
     local_path |-> base_guess.local_path, url |-> base_guess.url]

\* C23: _get_stream_info_guesses returns exactly two guesses, the
\* base-derived guess first and the raw sniffed guess second, when sniffing
\* yields a type that conflicts with the base guess on mimetype, extension
\* or charset; exactly one merged guess when the two are compatible; and
\* exactly the enhanced base guess when sniffing yields no usable type.
C23_GuessesReturned ==
    GuessesBuilt =>
       LET base_guess == fn_return.value.base_guess
           result     == fn_call.result
           guesses    == fn_return.value.guesses
       IN  CASE ~result.known ->
                   guesses = <<enhanced_guess(base_guess)>>
             [] result.known /\ ConflictsOn(base_guess, result) # {} ->
                   guesses = <<enhanced_guess(base_guess), Sniffed(base_guess, result)>>
             [] OTHER ->
                   /\ Len(guesses) = 1
                   /\ \A field \in DOMAIN base_guess :
                         guesses[1][field] =
                            IF base_guess[field] # NULL THEN base_guess[field]
                            ELSE Sniffed(base_guess, result)[field]

\* The caller gave a charset that the content does not have, and nothing
\* else is in conflict: two guesses come back, the second one the type
\* found in the content.
C23_Witness ==
    /\ GuessesBuilt
    /\ fn_call.result.known
    /\ ConflictsOn(fn_return.value.base_guess, fn_call.result) = {"charset"}
    /\ Len(fn_return.value.guesses) = 2
    /\ fn_return.value.guesses[2].mimetype = "text/plain"

\* The converters of the accepts calls made under trial guess g, in the
\* order of the calls.
TriedUnder(g) ==
    LET F[i \in 0..Len(calls)] ==
            IF i = 0 THEN <<>>
            ELSE IF IsAccepts(calls[i]) /\ calls[i].guess = g
                 THEN Append(F[i - 1], calls[i].converter)
                 ELSE F[i - 1]
    IN  F[Len(calls)]

\* The converters named by a list of registrations, in its order.
ConvertersOf(regs) == [k \in 1..Len(regs) |-> regs[k].converter]

IsPrefix(s, t) == Len(s) <= Len(t) /\ \A k \in 1..Len(s) : s[k] = t[k]

\* Converters are named by their place in the order of registration, so
\* one registered while the dispatch runs has a name beyond the snapshot.
\* C24: a register_converter call that interleaves with an in-flight
\* dispatch does not change the set or order of converters that the
\* dispatch tries, because dispatch iterates a sorted copy taken at its
\* start; the new registration is seen by every dispatch started afterwards.
C24_RegistrationInFlight ==
    /\ [][InFlight => sorted_registrations' = sorted_registrations]_vars
    /\ [][(pc = "ready" /\ pc' # "ready") => sorted_registrations' = sorted(converters)]_vars
    /\ [](pc \in {"accepts", "convert", "exhausted", "done"} /\ failed_call = None =>
            /\ \A g \in 1..Len(trial_guesses) :
                  IsPrefix(TriedUnder(g), ConvertersOf(sorted_registrations))
            /\ \A i \in 1..Len(calls) : calls[i].converter <= Len(sorted_registrations)
            /\ Len(sorted_registrations) <= Len(converters))

\* While a dispatch over two converters was in flight a third was
\* registered; the dispatch tried the first two under both trial guesses
\* and never the third.
C24_Witness ==
    /\ pc = "done"
    /\ outcome = "UnsupportedFormatException"
    /\ Len(sorted_registrations) = 2
    /\ Len(converters) = 3
    /\ Len(trial_guesses) = 2
    /\ Len(calls) = 4

\* Where the conversion stands while a nested dispatch runs.
NestedPcs == {"nested_accepts", "nested_convert", "nested_exhausted"}

\* The locals of the enclosing _convert that the claim names, and its place
\* in the loops.
EnclosingFrame ==
    <<cur_pos, trial_guesses, stream_info_guesses, sorted_registrations,
      failed_attempts, gi, ci, res>>

\* A convert call of the enclosing dispatch whose exception it caught.
IsCaught(c) == IsConvert(c) /\ c.out \in ExceptionSubclasses

\* C25: a nested dispatch started by a container converter leaves the
\* enclosing dispatch's restore point, trial-guess list, registry snapshot
\* and failed-attempt list unchanged: failed attempts of the nested dispatch
\* are never added to the enclosing list, and an entry whose nested dispatch
\* ends in UnsupportedFormatException or FileConversionException is skipped
\* without failing the enclosing conversion.
C25_NestedLeavesEnclosingFrame ==
    /\ [][(pc = "convert" /\ pc' \in NestedPcs) => EnclosingFrame' = EnclosingFrame]_vars
    /\ [][(pc \in NestedPcs /\ nested'.outcome # "AssertionError") =>
             /\ EnclosingFrame' = EnclosingFrame
             /\ pc' \in NestedPcs \cup {"convert"}
             /\ outcome' = outcome
             /\ calls' = calls]_vars
    /\ [](Len(failed_attempts) = Len(SelectSeq(calls, IsCaught)))
    /\ [](\A k \in 1..Len(failed_attempts) :
             failed_attempts[k].exc_info.type \notin
                {"UnsupportedFormatException", "FileConversionException"})

\* The nested dispatch of an archive entry recorded a failed attempt and
\* ended in FileConversionException; the container went on and returned its
\* result, and the enclosing list holds the one failed attempt of the
\* converter tried before the container, as before.
C25_Witness ==
    /\ pc = "done"
    /\ outcome = "result"
    /\ nested.outcome = "FileConversionException"
    /\ Len(failed_attempts) = 1
    /\ failed_attempts[1].converter # calls[Len(calls)].converter

\* C26: two conversion calls that run concurrently on the same MarkItDown
\* instance with separate streams share no mutable state that either of
\* them writes during dispatch other than the converter registry; in
\* particular the options passed to one call are never observable by, or
\* applied to, the other call's conversion.
C26_OptionsNotShared ==
    \A t \in 1..Len(rss_calls) :
       \A k \in 1..Len(rss_calls[t].applied) :
          rss_calls[t].applied[k] = rss_calls[t].kwargs

\* The first position at or after from whose byte is no whitespace, or the
\* end of the content when only whitespace remains.
FirstNonWhitespace(content, from) ==
    CHOOSE p \in from..Len(content) :
       /\ p = Len(content) \/ content[p + 1] # "ws"
       /\ \A q \in from..(p - 1) : content[q + 1] = "ws"

\* C27: _guess_stream_info_from_stream runs the content classifier a second
\* time only when the first run returned no guesses, at most once, and then
\* with the stream positioned at the first non-whitespace byte at or after
\* the entry position (or at end of stream when only whitespace remains);
\* when the first run returns a guess the classifier is not run again.
C27_SecondRunAfterWhitespace ==
    guessing.fn = "_guess_stream_info_from_stream" =>
       LET runs == guessing.runs
       IN  /\ Len(runs) <= 2
           /\ Len(runs) >= 1 => runs[1].at = guessing.cur_pos
           /\ Len(runs) = 2 =>
                 /\ runs[1].out = "none"
                 /\ runs[2].at = FirstNonWhitespace(file_stream.content, guessing.cur_pos)
           /\ (Len(runs) >= 1 /\ runs[1].out = "type") =>
                 /\ Len(runs) = 1
                 /\ guessing.pc = "returned"

\* The first run found nothing in a stream that begins with whitespace; the
\* second run started behind the whitespace, at a byte that is none, and
\* found a type.
C27_Witness ==
    /\ guessing.fn = "_guess_stream_info_from_stream"
    /\ guessing.pc = "returned"
    /\ Len(guessing.runs) = 2
    /\ guessing.runs[2].at > guessing.cur_pos
    /\ guessing.runs[2].at < Len(file_stream.content)
    /\ guessing.runs[2].out = "type"

\* convert_stream has its stream for guess extraction and dispatch.
Buffered ==
    /\ fn_call # None
    /\ fn_call.fn = "convert_stream"
    /\ fn_return # None

\* C28: guess extraction and dispatch are only ever run on a seekable
\* stream: convert_stream copies a non-seekable stream completely into an
\* in-memory buffer positioned at offset 0 before guessing, and uses a
\* seekable stream as it is, from its current position, without rewinding it.
C28_SeekableStream ==
    Buffered =>
       LET given == fn_call.stream
           used  == fn_return.value
       IN  /\ used.seekable
           /\ given.seekable => used = given
           /\ ~given.seekable =>
                 /\ used.pos = 0
                 /\ used.content = SubSeq(given.content, given.pos + 1, Len(given.content))

\* A stream that cannot seek and gives one byte per read, two bytes of it
\* still unread: the buffer holds both and stands at offset 0.
C28_Witness ==
    /\ Buffered
    /\ ~fn_call.stream.seekable
    /\ fn_call.short = 1
    /\ Len(fn_return.value.content) = 2
    /\ fn_return.value.pos = 0

\* C29: a dispatch over n supplied guesses and a registry snapshot of m
\* registrations invokes accepts at most (n+1)*m times and convert at most
\* (n+1)*m times, and ends with a result or an exception provided every
\* accepts and convert call returns, even when converters register further
\* converters while the dispatch runs.
C29_DispatchTerminates ==
    /\ [](LET n == Len(stream_info_guesses)
              m == Len(sorted_registrations)
          IN  /\ Len(AcceptsCalls) <= (n + 1) * m
              /\ Len(ConvertCalls) <= (n + 1) * m)
    /\ InFlight ~> (pc = "done" /\ outcome \in {"result", "FileConversionException",
                                                "UnsupportedFormatException"})

\* A dispatch over one supplied guess and a snapshot of two registrations,
\* a third converter registered while it ran, made its four accepts calls
\* and ended.
C29_Witness ==
    /\ pc = "done"
    /\ Len(stream_info_guesses) = 1
    /\ Len(sorted_registrations) = 2
    /\ Len(converters) = 3
    /\ Len(AcceptsCalls) = 4
    /\ Len(ConvertCalls) = 2

\* The registrations of a converter class in the registry.
RegistrationsOf(class) == {i \in 1..Len(converters) : converters[i].converter = class}

\* C30: after any sequence of enable_builtins calls on one MarkItDown
\* instance, including calls that end in an exception, every built-in
\* converter class is registered at most once in that instance's registry;
\* a call made after the built-ins are enabled only warns and leaves the
\* registry unchanged.
C30_BuiltinsRegisteredOnce ==
    /\ \A k \in 1..Len(Builtins) : Cardinality(RegistrationsOf(Builtins[k].class)) <= 1
    /\ Cardinality(RegistrationsOf("DocumentIntelligenceConverter")) <= 1
    /\ \A k \in 2..Len(enable_calls) :
          enable_calls[k - 1].out \in {"returned", "RuntimeWarning"} =>
             enable_calls[k].out = "RuntimeWarning"

====
